---- MODULE Spec2Model ----
(***************************************************************************)
(* A model of miniconf (src/src/miniconf.cpp, with the declarations of     *)
(* miniconf.h in src/unnamed/part_000): the Config engine with its option  *)
(* schema, its resolved-value store, its log, and the parse pipeline       *)
(* (checkFormat, defaults, config-file merge, the left-to-right token      *)
(* walk, auto-help, validate).                                             *)
(*                                                                         *)
(* Text is modelled as a sequence of one-character strings, so that        *)
(* "--count" and the canonical flag "count" are related the way the code   *)
(* relates them (token + 2).  A double is modelled in fixed point, as a    *)
(* number of tenths.  A Value is its tag and its payload.                  *)
(***************************************************************************)
EXTENDS Integers, Sequences, FiniteSets, TLC

VARIABLES
    options,            \* Config::_options : canonical flag -> Option
    optionValues,       \* Config::_optionValues : flag -> Value
    log,                \* Config::_log, as records {level, token, msg, arg}
    logLevel,           \* Config::_logLevel
    description,        \* Config::_description
    exeName,            \* Config::_exeName
    autoHelp,           \* Config::_autoHelp
    loadConfig,         \* Config::_loadConfig
    fs,                 \* the files config() reads: path -> content
    argv,               \* the argument vector of the last parse call
    ret,                \* what the last parse call returned
    checkFormatResult,  \* parse's local of that name (<<>>: no parse yet)
    validateResult,     \* parse's local of that name (<<>>: validate not run)
    helpShown,          \* whether the last parse call emitted the help text
    badAccess,          \* the last parse read getBoolean() of a non-Bool Value
    calls,              \* number of registry and setting calls made so far
    parses,             \* number of parse calls made so far
    tok,                \* the token handed to getTokenType (token specification)
    tokType,            \* what getTokenType returned for it
    resolved,           \* what getOption returned for it (<<>>: not called)
    returned,           \* what the last value-returning call returned (<<>>: none)
    reloaded,           \* the store of a second Config that read the saved file
    memory              \* the Value objects of a caller, and the buffers they
                        \* allocated: [objects, heap, faults]

vars == <<options, optionValues, log, logLevel, description, exeName, autoHelp,
          loadConfig, fs, argv, ret, checkFormatResult, validateResult,
          helpShown, badAccess, calls, parses, tok, tokType, resolved,
          returned, reloaded, memory>>

(***************************************************************************)
(* Bounds of the model.                                                    *)
(***************************************************************************)
MaxArgs == 2
MaxCalls == 2
MaxParses == 1
MaxAgain == 1
MaxWalkArgs == 3
MaxExampleArgs == 4
MaxTokenLen == 4
MaxTokenArgs == 2
MaxValueLen == 3
MaxCursorArgs == 4
MaxCsvArgs == 3
MaxJsonArgs == 4

(***************************************************************************)
(* Config::LogLevel, in the order of the enumeration.                      *)
(***************************************************************************)
INFO == 0
WARNING == 1
ERROR == 2
NONE == 3
LogLevels == {INFO, WARNING, ERROR, NONE}

(***************************************************************************)
(* Characters and text.                                                    *)
(***************************************************************************)
Digits == <<"0", "1", "2", "3", "4", "5", "6", "7", "8", "9">>
Uppers == <<"A", "B", "C", "D", "E", "F", "G", "H", "I", "J", "K", "L", "M",
            "N", "O", "P", "Q", "R", "S", "T", "U", "V", "W", "X", "Y", "Z">>
Lowers == <<"a", "b", "c", "d", "e", "f", "g", "h", "i", "j", "k", "l", "m",
            "n", "o", "p", "q", "r", "s", "t", "u", "v", "w", "x", "y", "z">>

Range(s) == {s[i] : i \in DOMAIN s}

IndexOf(s, c) == CHOOSE i \in DOMAIN s : s[i] = c

DigitVal(c) == IndexOf(Digits, c) - 1

\* The characters of the model in the order of their codes in the execution
\* character set (ASCII), which is the order std::map<std::string, ...>
\* iterates its keys in.
Ascii ==
    <<"\n", " ", "\"", "(", "+", ",", "-", ".", "/">> \o Digits \o Uppers
    \o <<"\\", "_">> \o Lowers

\* The rank of each character in that order.
CharCode == [c \in Range(Ascii) |-> IndexOf(Ascii, c)]

RECURSIVE StrLess(_, _)
\* std::string operator< : lexicographic on character codes.
StrLess(a, b) ==
    IF b = <<>> THEN FALSE
    ELSE IF a = <<>> THEN TRUE
    ELSE IF a[1] = b[1] THEN StrLess(Tail(a), Tail(b))
    ELSE CharCode[a[1]] < CharCode[b[1]]

RECURSIVE SortedKeys(_)
\* The keys of a std::map in iteration order.
SortedKeys(S) ==
    IF S = {} THEN <<>>
    ELSE LET m == CHOOSE k \in S : \A j \in S \ {k} : StrLess(k, j)
         IN  <<m>> \o SortedKeys(S \ {m})

StartsWith(s, p) == Len(s) >= Len(p) /\ SubSeq(s, 1, Len(p)) = p

Drop(s, n) == SubSeq(s, n + 1, Len(s))

RECURSIVE Split(_, _)
\* The pieces std::getline(stream, piece, sep) yields until the stream ends:
\* the text between separators; a trailing separator yields a last empty piece.
Split(s, sep) ==
    IF \E i \in DOMAIN s : s[i] = sep
    THEN LET i == CHOOSE j \in DOMAIN s : s[j] = sep /\ \A k \in 1..(j - 1) : s[k] # sep
         IN  <<SubSeq(s, 1, i - 1)>> \o Split(Drop(s, i), sep)
    ELSE <<s>>

LastIndexOf(s, C) ==
    IF \E i \in DOMAIN s : s[i] \in C
    THEN CHOOSE i \in DOMAIN s : s[i] \in C /\ \A k \in (i + 1)..Len(s) : s[k] \notin C
    ELSE 0

\* The text after the last '.', empty when there is none.
Extension(path) ==
    LET lastDot == LastIndexOf(path, {"."})
    IN  IF lastDot # 0 THEN Drop(path, lastDot) ELSE <<>>

\* The text after the last path separator.
BaseName(path) ==
    LET lastslash == LastIndexOf(path, {"\\", "/"})
    IN  IF lastslash # 0 THEN Drop(path, lastslash) ELSE path

(***************************************************************************)
(* The text the model uses.                                                *)
(***************************************************************************)
str_help == <<"h", "e", "l", "p">>
str_config == <<"c", "o", "n", "f", "i", "g">>
str_cfg == <<"c", "f", "g">>
str_false == <<"f", "a", "l", "s", "e">>
str_count == <<"c", "o", "u", "n", "t">>
str_c == <<"c">>
str_name == <<"n", "a", "m", "e">>
str_verbose == <<"v", "e", "r", "b", "o", "s", "e">>
str_v == <<"v">>
str_prog == <<"p", "r", "o", "g">>
str_alice == <<"a", "l", "i", "c", "e">>
str_5 == <<"5">>
str_minus5 == <<"-", "5">>

Long(flag) == <<"-", "-">> \o flag
Short(shortflag) == <<"-">> \o shortflag

(***************************************************************************)
(* Value: the tag (Value::DataType) and the payload.                       *)
(***************************************************************************)
Unknown == [type |-> "UNKNOWN", val |-> 0]
IntValue(i) == [type |-> "INT", val |-> i]
NumberValue(tenths) == [type |-> "NUMBER", val |-> tenths]
BoolValue(b) == [type |-> "BOOL", val |-> b]
StringValue(s) == [type |-> "STRING", val |-> s]

\* Value::isEmpty.  A Value held by the schema or the store is built by a
\* constructor or a copy, so its buffer is never null: the tag decides.
isEmpty(v) == v.type = "UNKNOWN"

(***************************************************************************)
(* Value as an object: its members _type, _size and _data, and the buffers *)
(* new char[] returned.  _data is 0 for nullptr and otherwise the index of *)
(* a buffer in the heap; a buffer keeps its size, the payload copied into  *)
(* it and how often it was deleted.  faults collects the reads no buffer   *)
(* backs.                                                                  *)
(***************************************************************************)
ValueNames == {"a", "b"}

\* Value::Value(): UNKNOWN, size 0, nullptr.
NewValue == [alive |-> TRUE, _type |-> "UNKNOWN", _size |-> 0, _data |-> 0]

\* An object outside its lifetime.
NoValue == [alive |-> FALSE, _type |-> "UNKNOWN", _size |-> 0, _data |-> 0]

NoValues == [objects |-> [n \in ValueNames |-> NoValue], heap |-> <<>>, faults |-> {}]

\* What a const char* src can point at: nothing, a buffer of the heap, or
\* the primitive of the caller.
nullptr == [at |-> "null"]
HeapPointer(data) == IF data = 0 THEN nullptr ELSE [at |-> "heap", data |-> data]
CallerPointer(bytes) == [at |-> "caller", bytes |-> bytes]

\* sizeof(int), sizeof(double), sizeof(bool), and strlen + 1.
sizeOf(v) ==
    IF v.type = "INT" THEN 4
    ELSE IF v.type = "NUMBER" THEN 8
    ELSE IF v.type = "BOOL" THEN 1
    ELSE Len(v.val) + 1

\* What a read of size bytes through a pointer no buffer backs may give.
Garbage(type) ==
    IF type = "STRING" THEN {<<>>, <<"?">>}
    ELSE IF type = "BOOL" THEN BOOLEAN
    ELSE {0, 1}

\* Value::clearData: the buffer is deleted, and _data reset, when _size is
\* not 0 and _data not nullptr; _type and _size stay.
clearData(M, n) ==
    IF M.objects[n]._size # 0 /\ M.objects[n]._data # 0
    THEN [M EXCEPT !.heap[M.objects[n]._data].released = @ + 1,
                   !.objects[n]._data = 0]
    ELSE M

\* Value::moveData without the source's pointer: the three members are
\* assigned (src = nullptr is the caller's part, src being a reference).
moveData(M, n, src, size, type) ==
    [M EXCEPT !.objects[n]._type = type,
              !.objects[n]._size = size,
              !.objects[n]._data = src]

\* Value::copyData: new char[size], memcpy from src, then moveData of the
\* new buffer.  Reading size > 0 bytes through nullptr or from a deleted
\* buffer is undefined: the payload is then whatever garbage is.
copyData(M, n, src, size, type, garbage) ==
    LET backed == \/ src.at = "caller"
                  \/ size = 0
                  \/ (src.at = "heap" /\ M.heap[src.data].released = 0)
        bytes == IF src.at = "caller" THEN src.bytes
                 ELSE IF size = 0 THEN 0
                 ELSE IF backed THEN M.heap[src.data].bytes
                 ELSE garbage
        fault == IF backed THEN {}
                 ELSE IF src.at = "null" THEN {"read through nullptr"}
                 ELSE {"read after delete"}
    IN  moveData([M EXCEPT !.heap = Append(@, [size |-> size, bytes |-> bytes,
                                                released |-> 0]),
                           !.faults = @ \cup fault],
                 n, Len(M.heap) + 1, size, type)

\* Value::Value(Value&& other) and operator=(Value&& other): moveData of
\* other's members, which leaves other._data nullptr.  The assignment does
\* not clear first.
moveFrom(M, n, other) ==
    [moveData(M, n, M.objects[other]._data, M.objects[other]._size,
              M.objects[other]._type)
     EXCEPT !.objects[other]._data = 0]

\* Value::isEmpty of an object (Value::type is the member _type).
objectIsEmpty(o) == o._data = 0 \/ o._type = "UNKNOWN"

(***************************************************************************)
(* Config::Option and its builder.                                         *)
(***************************************************************************)
\* Option::Option() followed by flag(flag), as Config::option builds it.
NewOption(flag) ==
    [flag |-> flag, shortflag |-> <<>>, description |-> "",
     defaultValue |-> Unknown, required |-> FALSE, hidden |-> FALSE]

OptionShortflag(o, shortflag) == [o EXCEPT !.shortflag = shortflag]
OptionDescription(o, text) == [o EXCEPT !.description = text]
OptionDefaultValue(o, v) == [o EXCEPT !.defaultValue = v]
OptionRequired(o, b) == [o EXCEPT !.required = b]
OptionHidden(o, b) == [o EXCEPT !.hidden = b]

\* Option::type : the tag of the default value.
OptionType(o) == o.defaultValue.type

\* std::map::operator[]= on a map modelled as a function.
MapPut(m, k, v) == [x \in DOMAIN m \cup {k} |-> IF x = k THEN v ELSE m[x]]

\* std::map::erase(key).
MapErase(m, k) == [x \in DOMAIN m \ {k} |-> m[x]]

EmptyMap == [x \in {} |-> Unknown]

\* Config::findOption.
findOption(opts, flag) == flag \in DOMAIN opts

\* Config::option assigning a fresh Option whether or not the flag is there.
option_overwrites(opts, flag) == MapPut(opts, flag, NewOption(flag))

\* Config::option : insert() keeps an entry that is already there.
option(opts, flag) ==
    IF findOption(opts, flag) THEN opts ELSE MapPut(opts, flag, NewOption(flag))

\* Config::contains : looks at the resolved values only.
contains(values, flag) == flag \in DOMAIN values

(***************************************************************************)
(* Config::log(level, token, msg): an entry below the threshold is dropped.*)
(***************************************************************************)
LogEntry(level, token, msg, arg) ==
    [level |-> level, token |-> token, msg |-> msg, arg |-> arg]

logAdd(lg, threshold, e) == IF e.level < threshold THEN lg ELSE Append(lg, e)

RECURSIVE logAddAll(_, _, _)
logAddAll(lg, threshold, es) ==
    IF es = <<>> THEN lg
    ELSE logAddAll(logAdd(lg, threshold, Head(es)), threshold, Tail(es))

(***************************************************************************)
(* Config::checkFormat.                                                    *)
(***************************************************************************)
\* worseLevel returning the milder of the two levels.
worseLevel_milder(a, b) == IF a < b THEN a ELSE b

worseLevel(a, b) == IF a < b THEN b ELSE a

RECURSIVE worstOf(_, _)
\* errorLv after it has been worsened by each issue in turn.
worstOf(errorLv, es) ==
    IF es = <<>> THEN errorLv
    ELSE worstOf(worseLevel(errorLv, Head(es).level), Tail(es))

RECURSIVE duplicateIssues(_, _, _)
\* The inner loop of checkFormat: o against every option o2, in map order.
duplicateIssues(opts, o, keys) ==
    IF keys = <<>> THEN <<>>
    ELSE (IF o.flag # opts[Head(keys)].flag
             /\ o.shortflag = opts[Head(keys)].shortflag
             /\ ~(o.shortflag = <<>>)
          THEN <<LogEntry(ERROR, o.flag, "duplicate short flags",
                          opts[Head(keys)].shortflag)>>
          ELSE <<>>)
         \o duplicateIssues(opts, o, Tail(keys))

\* The body of checkFormat's outer loop for one option; keys is the schema
\* in map order.
optionIssues(opts, keys, o) ==
    (IF ~o.required /\ isEmpty(o.defaultValue)
     THEN <<LogEntry(ERROR, o.flag, "default value is not defined", <<>>)>>
     ELSE <<>>)
    \o duplicateIssues(opts, o, keys)
    \o (IF o.description = ""
        THEN <<LogEntry(WARNING, o.flag, "no description text for argument", <<>>)>>
        ELSE <<>>)
    \o (IF o.shortflag = <<>>
        THEN <<LogEntry(WARNING, o.flag, "no short flag is provided", <<>>)>>
        ELSE <<>>)

RECURSIVE formatIssues(_, _, _)
\* checkFormat's outer loop from the option at position i of keys on.
formatIssues(opts, keys, i) ==
    IF i > Len(keys) THEN <<>>
    ELSE optionIssues(opts, keys, opts[keys[i]]) \o formatIssues(opts, keys, i + 1)

\* Every issue checkFormat raises, in the order it raises them.
checkFormatIssues(opts, desc) ==
    formatIssues(opts, SortedKeys(DOMAIN opts), 1)
    \o (IF desc = ""
        THEN <<LogEntry(WARNING, <<>>, "No program description text is provided", <<>>)>>
        ELSE <<>>)

\* Config::checkFormat : the level returned and the log afterwards.
checkFormat(opts, desc, threshold, lg) ==
    LET es == checkFormatIssues(opts, desc)
    IN  [level |-> worstOf(INFO, es), log |-> logAddAll(lg, threshold, es)]

(***************************************************************************)
(* Tokens.                                                                 *)
(***************************************************************************)
RECURSIVE CountWhile(_, _, _)
\* How many characters of s from position i on belong to C.
CountWhile(s, i, C) ==
    IF i <= Len(s) /\ s[i] \in C THEN 1 + CountWhile(s, i + 1, C) ELSE 0

DigitSet == Range(Digits)

ToLower(c) == IF c \in Range(Uppers) THEN Lowers[IndexOf(Uppers, c)] ELSE c

LowerCase(s) == [i \in DOMAIN s |-> ToLower(s[i])]

\* Where an optional sign at position p ends: the position after it.
SkipSign(s, p) == IF p <= Len(s) /\ s[p] \in {"+", "-"} THEN p + 1 ELSE p

\* strtod's exponent part: the mantissa ends at mantEnd; an 'e' or 'E' after
\* it counts only when digits follow its optional sign (first at e1).
strtodExponent(s, mantEnd, e1) ==
    IF mantEnd + 1 <= Len(s) /\ s[mantEnd + 1] \in {"e", "E"}
       /\ CountWhile(s, e1, DigitSet) > 0
    THEN e1 + CountWhile(s, e1, DigitSet) - 1
    ELSE mantEnd

\* strtod's inf, infinity and nan, matched without regard to case at p1.
strtodSpecial(rest, p1) ==
    IF StartsWith(rest, <<"i", "n", "f", "i", "n", "i", "t", "y">>) THEN p1 + 7
    ELSE IF StartsWith(rest, <<"i", "n", "f">>) THEN p1 + 2
    ELSE IF StartsWith(rest, <<"n", "a", "n">>) THEN p1 + 2
    ELSE 0

\* strtod's mantissa: n1 digits from p1, then an optional '.' and n2 digits.
strtodMantissa(s, p1, n1, n2) ==
    IF n1 + n2 = 0 THEN strtodSpecial(LowerCase(Drop(s, p1 - 1)), p1)
    ELSE IF p1 + n1 <= Len(s) /\ s[p1 + n1] = "."
         THEN strtodExponent(s, p1 + n1 + n2, SkipSign(s, p1 + n1 + n2 + 2))
         ELSE strtodExponent(s, p1 + n1 - 1, SkipSign(s, p1 + n1 + 1))

\* The digits after a '.' at position dot, 0 when there is no '.' there.
FractionDigits(s, dot) ==
    IF dot <= Len(s) /\ s[dot] = "." THEN CountWhile(s, dot + 1, DigitSet) ELSE 0

strtodFrom(s, p1, n1) == strtodMantissa(s, p1, n1, FractionDigits(s, p1 + n1))

strtodSigned(s, p1) == strtodFrom(s, p1, CountWhile(s, p1, DigitSet))

\* std::strtod(token, &endptr): how many characters of the token the
\* conversion consumes (endptr - token), 0 when no conversion is performed.
\* Decimal literals with an optional exponent, and inf, infinity and nan;
\* hexadecimal literals and nan(...) are not modelled (no token of the model
\* has an 'x' after a '0' or a '(').
strtodEnd(s) == strtodSigned(s, SkipSign(s, CountWhile(s, 1, {" ", "\n"}) + 1))

\* getTokenType without the numeric test: every '-' token is a flag.
getTokenType_noNumber(token) ==
    IF Len(token) = 0 THEN "UNKNOWN"
    ELSE IF token[1] = "-"
         THEN IF Len(token) >= 2 /\ token[2] = "-" THEN "FLAG" ELSE "SHORTFLAG"
         ELSE "VALUE"

\* Config::getTokenType.
getTokenType(token) ==
    IF Len(token) = 0 THEN "UNKNOWN"
    ELSE IF token[1] = "-"
         THEN IF strtodEnd(token) = Len(token) /\ strtodEnd(token) # 0
              THEN "VALUE"
              ELSE IF Len(token) >= 2 /\ token[2] = "-" THEN "FLAG" ELSE "SHORTFLAG"
         ELSE "VALUE"

RECURSIVE firstWithShortflag(_, _, _)
\* The loop of translateShortflag: the first key, in map order, whose option
\* has this short flag; <<FALSE, ...>> at end().
firstWithShortflag(opts, keys, shortflag) ==
    IF keys = <<>> THEN [found |-> FALSE, flag |-> <<>>]
    ELSE IF opts[Head(keys)].shortflag = shortflag
         THEN [found |-> TRUE, flag |-> Head(keys)]
         ELSE firstWithShortflag(opts, Tail(keys), shortflag)

\* translateShortflag with no fall-back to the short flag's own text.
translated_noFallback(f, shortflag) == IF f.found THEN f.flag ELSE <<>>

\* What translateShortflag returns once its loop has ended at f.
translated(f, shortflag) == IF f.found THEN f.flag ELSE shortflag

\* Config::translateShortflag.
translateShortflag(opts, shortflag) ==
    translated(firstWithShortflag(opts, SortedKeys(DOMAIN opts), shortflag), shortflag)

NoOption == [found |-> FALSE, flag |-> <<>>]

\* The end of getOption, once flag is set.
lookupOption(opts, flag) ==
    IF flag = <<>> THEN NoOption
    ELSE IF findOption(opts, flag) THEN [found |-> TRUE, flag |-> flag]
    ELSE NoOption

\* getOption stripping one '-' of a long flag instead of two.
getOption_oneDash(opts, token, tokenType) ==
    lookupOption(opts,
                 IF tokenType = "FLAG" THEN Drop(token, 1)
                 ELSE IF tokenType = "SHORTFLAG"
                      THEN translateShortflag(opts, Drop(token, 1))
                      ELSE <<>>)

\* Config::getOption : the key of the option found, or nullptr (found = FALSE).
getOption(opts, token, tokenType) ==
    lookupOption(opts,
                 IF tokenType = "FLAG" THEN Drop(token, 2)
                 ELSE IF tokenType = "SHORTFLAG"
                      THEN translateShortflag(opts, Drop(token, 1))
                      ELSE <<>>)

(***************************************************************************)
(* Config::parseValue.                                                     *)
(***************************************************************************)
RECURSIVE DigitsValue(_, _, _)
\* The number the n digits of s from position i on denote.
DigitsValue(s, i, n) ==
    IF n = 0 THEN 0
    ELSE DigitsValue(s, i, n - 1) * 10 + DigitVal(s[i + n - 1])

\* The result of a scanf conversion that read n characters of magnitude m.
Scanned(n, neg, m) ==
    [success |-> IF n > 0 THEN 1 ELSE 0, v |-> IF neg THEN -m ELSE m]

IsMinus(s, p) == p <= Len(s) /\ s[p] = "-"

scanIntDigits(s, neg, p1, n) == Scanned(n, neg, DigitsValue(s, p1, n))

scanIntFrom(s, p0) ==
    scanIntDigits(s, IsMinus(s, p0), SkipSign(s, p0),
                  CountWhile(s, SkipSign(s, p0), DigitSet))

\* sscanf(token, "%d", &v): white space, an optional sign, then digits; the
\* conversion stops at the first character that is no digit.
scanInt(s) == scanIntFrom(s, CountWhile(s, 1, {" ", "\n"}) + 1)

scanNumberDigits(s, neg, p1, n1, n2) ==
    Scanned(n1 + n2, neg,
            DigitsValue(s, p1, n1) * 10
            + (IF n2 > 0 THEN DigitVal(s[p1 + n1 + 1]) ELSE 0))

scanNumberMantissa(s, neg, p1, n1) ==
    scanNumberDigits(s, neg, p1, n1, FractionDigits(s, p1 + n1))

scanNumberFrom(s, p0) ==
    scanNumberMantissa(s, IsMinus(s, p0), SkipSign(s, p0),
                       CountWhile(s, SkipSign(s, p0), DigitSet))

\* sscanf(token, "%lf", &v) on a decimal literal; v in tenths (the tokens of
\* the model carry at most one fractional digit and no exponent).
scanNumber(s) == scanNumberFrom(s, CountWhile(s, 1, {" ", "\n"}) + 1)

\* (success == 1) ? Value(v) : Value::unknown()
IntOrUnknown(r) == IF r.success = 1 THEN IntValue(r.v) ELSE Unknown

NumberOrUnknown(r) == IF r.success = 1 THEN NumberValue(r.v) ELSE Unknown

parseValue(token, dataType) ==
    IF dataType = "INT" THEN IntOrUnknown(scanInt(token))
    ELSE IF dataType = "NUMBER" THEN NumberOrUnknown(scanNumber(token))
    ELSE IF dataType = "BOOL"
    THEN IF token = str_false \/ token = <<"F", "a", "l", "s", "e">> \/ token = <<"F", "A", "L", "S", "E">>
            \/ token = <<"F">> \/ token = <<"f">>
         THEN BoolValue(FALSE)
         ELSE BoolValue(TRUE)
    ELSE IF dataType = "STRING" THEN StringValue(token)
    ELSE Unknown

(***************************************************************************)
(* Config::setDefaultValues and Config::validate.                          *)
(***************************************************************************)
\* Every schema option's default is written over its entry; the entries of
\* other keys stay.
setDefaultValues(opts, values) ==
    [k \in DOMAIN values \cup DOMAIN opts |->
        IF k \in DOMAIN opts THEN opts[k].defaultValue ELSE values[k]]

\* validate without its first loop.
removeHidden_keepsAll(opts, values) == values

\* validate's first loop: the entries of hidden schema options are erased.
removeHidden(opts, values) ==
    [k \in {x \in DOMAIN values : ~(x \in DOMAIN opts /\ opts[x].hidden)} |-> values[k]]

RECURSIVE emptyValueIssues(_, _)
\* validate's second loop, over the resolved values in map order.
emptyValueIssues(values, keys) ==
    IF keys = <<>> THEN <<>>
    ELSE (IF isEmpty(values[Head(keys)])
          THEN <<LogEntry(ERROR, Head(keys), "option contains invalid value", <<>>)>>
          ELSE <<>>)
         \o emptyValueIssues(values, Tail(keys))

RECURSIVE undefinedIssues(_, _, _)
\* validate's third loop, over the schema in map order.
undefinedIssues(opts, values, keys) ==
    IF keys = <<>> THEN <<>>
    ELSE (IF ~contains(values, Head(keys)) /\ ~opts[Head(keys)].hidden
          THEN <<LogEntry(ERROR, Head(keys), "option is undefined", <<>>)>>
          ELSE <<>>)
         \o undefinedIssues(opts, values, Tail(keys))

\* Config::validate : the level returned, the store and the log afterwards.
validate(opts, values, threshold, lg) ==
    LET kept == removeHidden(opts, values)
        es == emptyValueIssues(kept, SortedKeys(DOMAIN kept))
              \o undefinedIssues(opts, kept, SortedKeys(DOMAIN opts))
    IN  [level |-> worstOf(INFO, es), values |-> kept,
         log |-> logAddAll(lg, threshold, es)]

(***************************************************************************)
(* Config::loadCSV.                                                        *)
(***************************************************************************)
\* The body of the inner loop for one flag,value pair.
csvPair(opts, st, threshold, sflag, svalue) ==
    IF svalue = <<>> THEN st
    ELSE IF findOption(opts, sflag)
    THEN [values |-> MapPut(st.values, sflag, parseValue(svalue, OptionType(opts[sflag]))),
          log |-> logAdd(st.log, threshold,
                         LogEntry(INFO, sflag, "value is loaded from config", <<>>))]
    ELSE [values |-> MapPut(st.values, sflag, parseValue(svalue, "STRING")),
          log |-> logAdd(st.log, threshold,
                         LogEntry(INFO, sflag,
                                  "value is not defined in config, parsed as a string value", <<>>))]

RECURSIVE csvFields(_, _, _, _)
\* The inner loop: the pieces of a line are read two at a time while the
\* line stream is good; a piece that is missing reads as empty.
csvFields(opts, st, threshold, fields) ==
    IF fields = <<>> THEN st
    ELSE LET sflag == fields[1]
             svalue == IF Len(fields) >= 2 THEN fields[2] ELSE <<>>
         IN  csvFields(opts, csvPair(opts, st, threshold, sflag, svalue), threshold,
                       Drop(fields, 2))

RECURSIVE csvLines(_, _, _, _)
\* The outer loop over the lines; an empty line is skipped.
csvLines(opts, st, threshold, lines) ==
    IF lines = <<>> THEN st
    ELSE csvLines(opts,
                  IF Head(lines) = <<>> THEN st
                  ELSE csvFields(opts, st, threshold, Split(Head(lines), ",")),
                  threshold, Tail(lines))

\* st is the store and the log: [values, log].
loadCSV(opts, st, threshold, CSVStr) ==
    csvLines(opts, st, threshold, Split(CSVStr, "\n"))

(***************************************************************************)
(* Config::loadJSON, parseJSON, getJSONValue.  A picojson::value is        *)
(* [k |-> "null"], [k |-> "array"], [k |-> "number", num |-> tenths],      *)
(* [k |-> "boolean", b |-> ...], [k |-> "string", s |-> ...] or            *)
(* [k |-> "object", members |-> <<[key, value], ...>>] with the members in *)
(* key order, as picojson::object (a std::map) iterates them.              *)
(***************************************************************************)
JsonNull == [k |-> "null"]
JsonNumber(tenths) == [k |-> "number", num |-> tenths]
JsonBool(b) == [k |-> "boolean", b |-> b]
JsonString(s) == [k |-> "string", s |-> s]
JsonObject(members) == [k |-> "object", members |-> members]
Member(key, value) == [key |-> key, value |-> value]

\* static_cast<int>(double): truncation toward zero.
TruncToInt(tenths) == IF tenths >= 0 THEN tenths \div 10 ELSE -((-tenths) \div 10)

\* The Value a scalar picojson::value is stored as when no option types it.
jsonNative(v) ==
    IF v.k = "number" THEN NumberValue(v.num)
    ELSE IF v.k = "boolean" THEN BoolValue(v.b)
    ELSE StringValue(v.s)

getJSONValue(opts, st, threshold, v, flag) ==
    IF findOption(opts, flag)
    THEN LET t == OptionType(opts[flag])
         IN  IF t = "INT" /\ v.k = "number"
             THEN [success |-> TRUE, log |-> st.log,
                   values |-> MapPut(st.values, flag, IntValue(TruncToInt(v.num)))]
             ELSE IF t = "NUMBER" /\ v.k = "number"
             THEN [success |-> TRUE, log |-> st.log,
                   values |-> MapPut(st.values, flag, NumberValue(v.num))]
             ELSE IF t = "BOOL" /\ v.k = "boolean"
             THEN [success |-> TRUE, log |-> st.log,
                   values |-> MapPut(st.values, flag, BoolValue(v.b))]
             ELSE IF t = "STRING" /\ v.k = "string"
             THEN [success |-> TRUE, log |-> st.log,
                   values |-> MapPut(st.values, flag, StringValue(v.s))]
             ELSE [success |-> FALSE, values |-> st.values,
                   log |-> logAdd(st.log, threshold,
                                  LogEntry(WARNING, flag,
                                           "Unable to parse the option from config file, flag = ",
                                           flag))]
    ELSE IF v.k \in {"number", "boolean", "string"}
         THEN [success |-> TRUE, log |-> st.log,
               values |-> MapPut(st.values, flag, jsonNative(v))]
         ELSE [success |-> FALSE, values |-> st.values,
               log |-> logAdd(st.log, threshold,
                              LogEntry(WARNING, flag,
                                       "Unable to parse the option from config file.", <<>>))]

RECURSIVE parseJSON(_, _, _, _, _)
RECURSIVE parseJSONMembers(_, _, _, _, _)
RECURSIVE parseJSONRest(_, _, _, _, _)
\* The flag a member is parsed under: the enclosing flag, a '.', its key.
memberFlag(flag, key) == flag \o (IF flag = <<>> THEN <<>> ELSE <<".">>) \o key

\* The loop over an object's members: success = success && parseJSON(...),
\* so once success is false no later member is parsed.
parseJSONMembers(opts, st, threshold, members, flag) ==
    IF members = <<>> THEN [success |-> TRUE, values |-> st.values, log |-> st.log]
    ELSE parseJSONRest(opts, threshold, Tail(members), flag,
                       parseJSON(opts, st, threshold, Head(members).value,
                                 memberFlag(flag, Head(members).key)))

\* The rest of the loop after a member's parseJSON has returned r.
parseJSONRest(opts, threshold, members, flag, r) ==
    IF r.success
    THEN parseJSONMembers(opts, [values |-> r.values, log |-> r.log],
                          threshold, members, flag)
    ELSE [success |-> FALSE, values |-> r.values, log |-> r.log]

parseJSON(opts, st, threshold, v, flag) ==
    IF v.k \in {"number", "boolean", "string"}
    THEN getJSONValue(opts, st, threshold, v, flag)
    ELSE IF v.k = "object"
    THEN parseJSONMembers(opts, st, threshold, v.members, flag)
    ELSE IF v.k = "array"
    THEN [success |-> FALSE, values |-> st.values, log |-> st.log]
    ELSE [success |-> FALSE, values |-> st.values,
          log |-> logAdd(st.log, threshold,
                         LogEntry(WARNING, flag, "Unable to parse JSON, abort, flag = ", flag))]

\* json is what picojson::parse left in its out-parameter: the document, or
\* null when the text is no JSON.
loadJSON(opts, st, threshold, json) ==
    LET r == parseJSON(opts, st, threshold, json, <<>>)
    IN  [values |-> r.values, log |-> r.log]

(***************************************************************************)
(* Config::config(path): the file is read and merged by its extension.     *)
(* A file is [kind |-> "missing"], [kind |-> "text", text |-> ...] or      *)
(* [kind |-> "json", doc |-> ...] (a text picojson parses to doc).         *)
(***************************************************************************)
Missing == [kind |-> "missing"]
TextFile(text) == [kind |-> "text", text |-> text]
JsonFile(doc) == [kind |-> "json", doc |-> doc]

ReadFile(files, path) == IF path \in DOMAIN files THEN files[path] ELSE Missing

\* The content as loadCSV reads it (an unreadable file reads as empty).
FileText(f) == IF f.kind = "text" THEN f.text ELSE <<>>

\* The content as picojson::parse leaves it.
FileJson(f) == IF f.kind = "json" THEN f.doc ELSE JsonNull

config(opts, st, threshold, files, configPath) ==
    LET content == ReadFile(files, configPath)
        extension == Extension(configPath)
    IN  IF extension = <<"j", "s", "o", "n">> \/ extension = <<"J", "S", "O", "N">>
        THEN loadJSON(opts, st, threshold, FileJson(content))
        ELSE IF extension = <<"c", "s", "v">> \/ extension = <<"C", "S", "V">>
        THEN loadCSV(opts, st, threshold, FileText(content))
        ELSE loadJSON(opts, st, threshold, FileJson(content))

(***************************************************************************)
(* Value::print and Config::serialize.  What serialize returns is          *)
(* [format, out]: out is the CSV text, or the picojson::value whose        *)
(* serialization is the text, or [k |-> "threw"] when get<object>() was    *)
(* called on a value that is no object, which throws out of serialize.     *)
(***************************************************************************)
RECURSIVE DigitsOf(_)
\* The decimal digits of a natural number, as snprintf's %d writes them.
DigitsOf(n) ==
    IF n < 10 THEN <<Digits[n + 1]>>
    ELSE DigitsOf(n \div 10) \o <<Digits[(n % 10) + 1]>>

\* Value::print : %d, %f (six decimals; the model's numbers are tenths),
\* true or false, the text in quotes; nothing is assigned for UNKNOWN.
print(v) ==
    IF v.type = "INT"
    THEN (IF v.val < 0 THEN <<"-">> \o DigitsOf(0 - v.val) ELSE DigitsOf(v.val))
    ELSE IF v.type = "NUMBER"
    THEN (IF v.val < 0 THEN <<"-">> \o DigitsOf((0 - v.val) \div 10)
                                  \o <<".", Digits[((0 - v.val) % 10) + 1]>>
          ELSE DigitsOf(v.val \div 10) \o <<".", Digits[(v.val % 10) + 1]>>)
         \o <<"0", "0", "0", "0", "0">>
    ELSE IF v.type = "BOOL"
    THEN (IF v.val THEN <<"t", "r", "u", "e">> ELSE str_false)
    ELSE IF v.type = "STRING" THEN <<"\"">> \o v.val \o <<"\"">>
    ELSE <<>>

\* Value::printType : the name snprintf writes for the tag.
printType(v) ==
    IF v.type = "INT" THEN <<"I", "N", "T">>
    ELSE IF v.type = "NUMBER" THEN <<"N", "U", "M", "B", "E", "R">>
    ELSE IF v.type = "BOOL" THEN <<"B", "O", "O", "L", "E", "A", "N">>
    ELSE IF v.type = "STRING" THEN <<"S", "T", "R", "I", "N", "G">>
    ELSE <<"U", "N", "K", "N", "O", "W", "N">>

RECURSIVE serializeCSV(_, _)
\* The CSV branch: a line flag,val for every entry of the store, in key
\* order; val is print() with the quotes of a string cut off.
serializeCSV(values, keys) ==
    IF keys = <<>> THEN <<>>
    ELSE LET val == print(values[Head(keys)])
         IN  Head(keys) \o <<",">>
             \o (IF values[Head(keys)].type = "STRING" /\ Len(val) >= 2
                 THEN SubSeq(val, 2, Len(val) - 1)
                 ELSE val)
             \o <<"\n">> \o serializeCSV(values, Tail(keys))

\* The picojson::value a store entry is written as; none (<<>>) for UNKNOWN.
jsonLeaf(v) ==
    IF v.type = "INT" THEN <<JsonNumber(v.val * 10)>>
    ELSE IF v.type = "NUMBER" THEN <<JsonNumber(v.val)>>
    ELSE IF v.type = "BOOL" THEN <<JsonBool(v.val)>>
    ELSE IF v.type = "STRING" THEN <<JsonString(v.val)>>
    ELSE <<>>

\* picojson::object::find : the position of key among the members, 0 at end().
memberAt(members, key) ==
    IF \E i \in DOMAIN members : members[i].key = key
    THEN CHOOSE i \in DOMAIN members : members[i].key = key
    ELSE 0

\* picojson::object::operator[]= : the member is replaced, or inserted at
\* its place in key order.
putMember(members, key, value) ==
    IF memberAt(members, key) # 0
    THEN [members EXCEPT ![memberAt(members, key)] = Member(key, value)]
    ELSE LET n == Cardinality({i \in DOMAIN members : StrLess(members[i].key, key)})
         IN  SubSeq(members, 1, n) \o <<Member(key, value)>>
             \o SubSeq(members, n + 1, Len(members))

RECURSIVE jsonSet(_, _, _)
\* The loop over flagTokens from thisObj = node on: every token but the last
\* steps into the member of that name, created as an empty object when it
\* is missing; the last token assigns the leaf.  get<picojson::object>() on
\* a value that is no object throws.
jsonSet(node, flagTokens, leaf) ==
    IF Len(flagTokens) = 1
    THEN IF leaf = <<>> THEN node
         ELSE IF node.k # "object" THEN [k |-> "threw"]
         ELSE JsonObject(putMember(node.members, flagTokens[1], leaf[1]))
    ELSE IF node.k # "object" THEN [k |-> "threw"]
    ELSE LET r == jsonSet(IF memberAt(node.members, flagTokens[1]) = 0
                          THEN JsonObject(<<>>)
                          ELSE node.members[memberAt(node.members, flagTokens[1])].value,
                          Tail(flagTokens), leaf)
         IN  IF r.k = "threw" THEN r
             ELSE JsonObject(putMember(node.members, flagTokens[1], r))

\* The body of the JSON loop for one entry of the store: a dotted flag is
\* written along its path, a plain one at the top unless it is there.
jsonEntry(outObj, flagTokens, leaf) ==
    IF Len(flagTokens) > 1 THEN jsonSet(outObj, flagTokens, leaf)
    ELSE IF memberAt(outObj.members, flagTokens[1]) = 0 /\ leaf # <<>>
    THEN JsonObject(putMember(outObj.members, flagTokens[1], leaf[1]))
    ELSE outObj

RECURSIVE serializeJSON(_, _, _)
\* The JSON branch: the entries of the store, in key order, written into
\* outObj.
serializeJSON(outObj, values, keys) ==
    IF keys = <<>> \/ outObj.k = "threw" THEN outObj
    ELSE serializeJSON(jsonEntry(outObj, Split(Head(keys), "."),
                                 jsonLeaf(values[Head(keys)])),
                       values, Tail(keys))

\* Config::ExportFormat, and the default of serialize's format argument when
\* JSON support is compiled in.
ExportFormats == {"JSON", "CSV"}
DefaultFormat == "JSON"

\* Config::serialize(serializeFilePath, format): the extension is what
\* follows the last dot; each of the three branches assigns format.
serialize(values, serializeFilePath, format) ==
    LET extension == Extension(serializeFilePath)
        chosen == IF extension \in {<<"j", "s", "o", "n">>, <<"J", "S", "O", "N">>}
                  THEN "JSON"
                  ELSE IF extension \in {<<"c", "s", "v">>, <<"C", "S", "V">>}
                       THEN "CSV"
                       ELSE "CSV"
    IN  IF chosen = "JSON"
        THEN [format |-> "JSON", asked |-> format,
              out |-> serializeJSON(JsonObject(<<>>), values, SortedKeys(DOMAIN values))]
        ELSE [format |-> "CSV", asked |-> format,
              out |-> serializeCSV(values, SortedKeys(DOMAIN values))]

(***************************************************************************)
(* Config::parse.                                                          *)
(***************************************************************************)
\* The cursor of the walk: currentOption, as the flag and the type it is
\* read for (a schema option or parse's local wildcard), or nullptr.
NoCursor == [set |-> FALSE, flag |-> <<>>, type |-> "UNKNOWN"]
Cursor(flag, type) == [set |-> TRUE, flag |-> flag, type |-> type]

\* The abort test without the threshold.
abortOn_anyThreshold(level, threshold) == level >= ERROR

\* The condition both of parse's aborts test.
abortOn(level, threshold) == level >= ERROR /\ threshold <= ERROR

\* The flag branch without the special case for Bool options.
setCurrent_noBool(values, lg, cur) == [values |-> values, log |-> lg, cur |-> cur]

\* The end of the flag branch: currentOption is cur; a Bool option is set to
\* true at once.
setCurrent(values, lg, cur) ==
    [values |-> IF cur.set /\ cur.type = "BOOL"
                THEN MapPut(values, cur.flag, BoolValue(TRUE))
                ELSE values,
     log |-> lg, cur |-> cur]

\* The flag branch with the wildcard taken for an unrecognized short flag too.
walkFound_shortWildcard(opts, st, threshold, token, tokenType, found) ==
    IF found.found
    THEN setCurrent(st.values, st.log, Cursor(found.flag, OptionType(opts[found.flag])))
    ELSE setCurrent(st.values, st.log,
                    Cursor(Drop(token, IF tokenType = "FLAG" THEN 2 ELSE 1), "STRING"))

\* The flag branch once getOption has returned found.
walkFound(opts, st, threshold, token, tokenType, found) ==
    IF found.found
    THEN setCurrent(st.values, st.log, Cursor(found.flag, OptionType(opts[found.flag])))
    ELSE setCurrent(st.values,
                    logAdd(st.log, threshold,
                           LogEntry(WARNING, token, "unrecognized flag", <<>>)),
                    IF tokenType = "FLAG" THEN Cursor(Drop(token, 2), "STRING")
                    ELSE NoCursor)

\* The branch of the walk for a FLAG or SHORTFLAG token.
walkFlag(opts, st, threshold, token, tokenType) ==
    walkFound(opts, st, threshold, token, tokenType, getOption(opts, token, tokenType))

\* The value branch leaving currentOption as it is.
walkParsed_keepsCursor(st, threshold, token, newValue) ==
    IF isEmpty(newValue)
    THEN [values |-> st.values, cur |-> st.cur, log |-> st.log]
    ELSE [values |-> MapPut(st.values, st.cur.flag, newValue), cur |-> st.cur,
          log |-> st.log]

\* The value branch once parseValue has returned newValue.
walkParsed(st, threshold, token, newValue) ==
    IF isEmpty(newValue)
    THEN [values |-> st.values, cur |-> NoCursor,
          log |-> logAdd(st.log, threshold,
                         LogEntry(WARNING, token, "unvalid value type is provided", <<>>))]
    ELSE [values |-> MapPut(st.values, st.cur.flag, newValue), cur |-> NoCursor,
          log |-> logAdd(st.log, threshold,
                         LogEntry(INFO, token, "value parsed successfully", <<>>))]

\* The branch of the walk for a VALUE token.
walkValue(st, threshold, token) ==
    IF st.cur.set
    THEN walkParsed(st, threshold, token, parseValue(token, st.cur.type))
    ELSE [values |-> st.values, cur |-> st.cur,
          log |-> logAdd(st.log, threshold,
                         LogEntry(WARNING, token, "unassociated argument is not stored", <<>>))]

\* One iteration of the walk on a token of type currentTokenType.
walkToken(opts, st, threshold, token, currentTokenType) ==
    IF currentTokenType = "UNKNOWN"
    THEN [st EXCEPT !.log = logAdd(st.log, threshold,
                                   LogEntry(ERROR, token, "unknown input", <<>>))]
    ELSE IF currentTokenType \in {"FLAG", "SHORTFLAG"}
    THEN walkFlag(opts, st, threshold, token, currentTokenType)
    ELSE walkValue(st, threshold, token)

\* One iteration of the walk; st is [values, log, cur].
walkStep(opts, st, threshold, token) ==
    walkToken(opts, st, threshold, token, getTokenType(token))

RECURSIVE walk(_, _, _, _)
\* The loop "start normal parsing" over argv[1..argc-1].
walk(opts, st, threshold, tokens) ==
    IF tokens = <<>> THEN st
    ELSE walk(opts, walkStep(opts, st, threshold, Head(tokens)), threshold, Tail(tokens))

RECURSIVE loadConfigFiles(_, _, _, _, _, _)
\* The loop that loads the config files: every pair argv[i], argv[i+1]
\* (1 <= i < argc - 1) of --config or -cfg and a VALUE token; av[i + 1] is
\* argv[i].
loadConfigFiles(opts, st, threshold, files, av, i) ==
    IF ~(i < Len(av) - 1) THEN st
    ELSE LET flag == av[i + 1]
             value == av[i + 2]
             ttype == getTokenType(value)
         IN  loadConfigFiles(opts,
                IF (flag = Long(str_config) \/ flag = Short(str_cfg)) /\ ttype = "VALUE"
                THEN config(opts, st, threshold, files, value)
                ELSE st,
                threshold, files, av, i + 1)

\* The values the auto-help condition _optionValues["help"].getBoolean() can
\* read: the payload of a Bool entry; either value when the entry holds data
\* of another type (the read interprets foreign bytes as a bool).
helpBoolean(values) ==
    IF ~contains(values, str_help) THEN {FALSE}
    ELSE IF values[str_help].type = "BOOL" THEN {values[str_help].val}
    ELSE BOOLEAN

\* The end of parse: validate has returned checked.
parseValidated(threshold, formatLevel, walkedValues, checked) ==
    [ret |-> IF abortOn(checked.level, threshold) THEN "failure" ELSE "success",
     values |-> checked.values, log |-> checked.log,
     checkFormatResult |-> <<formatLevel>>,
     validateResult |-> <<checked.level>>,
     helpRead |-> contains(walkedValues, str_help),
     getBoolean |-> helpBoolean(walkedValues),
     badAccess |-> contains(walkedValues, str_help)
                   /\ walkedValues[str_help].type # "BOOL"]

\* parse after the walk has left walked.
parseWalked(opts, threshold, formatLevel, walked) ==
    parseValidated(threshold, formatLevel, walked.values,
                   validate(opts, walked.values, threshold, walked.log))

\* parse after the config files have been merged into loaded.
parseLoaded(opts, threshold, formatLevel, av, loaded) ==
    parseWalked(opts, threshold, formatLevel,
                walk(opts, [values |-> loaded.values, log |-> loaded.log,
                            cur |-> NoCursor],
                     threshold, Tail(av)))

\* parse after setDefaultValues has left defaults.
parseDefaults(opts, threshold, formatLevel, ldcfg, files, av, defaults) ==
    parseLoaded(opts, threshold, formatLevel, av,
                IF ldcfg
                THEN loadConfigFiles(opts, defaults, threshold, files, av, 1)
                ELSE defaults)

\* parse writing the defaults before it tests checkFormat's result.
parseChecked_defaultsFirst(opts, values, threshold, ldcfg, files, av, format) ==
    IF abortOn(format.level, threshold)
    THEN [ret |-> "failure", values |-> setDefaultValues(opts, values),
          log |-> format.log,
          checkFormatResult |-> <<format.level>>, validateResult |-> <<>>,
          helpRead |-> FALSE, getBoolean |-> {FALSE}, badAccess |-> FALSE]
    ELSE parseDefaults(opts, threshold, format.level, ldcfg, files, av,
                       [values |-> setDefaultValues(opts, values), log |-> format.log])

\* parse after checkFormat has returned format.
parseChecked(opts, values, threshold, ldcfg, files, av, format) ==
    IF abortOn(format.level, threshold)
    THEN [ret |-> "failure", values |-> values, log |-> format.log,
          checkFormatResult |-> <<format.level>>, validateResult |-> <<>>,
          helpRead |-> FALSE, getBoolean |-> {FALSE}, badAccess |-> FALSE]
    ELSE parseDefaults(opts, threshold, format.level, ldcfg, files, av,
                       [values |-> setDefaultValues(opts, values), log |-> format.log])

\* Config::parse on the argument vector av (av[1] is argv[0]).  The result
\* names every piece of state parse leaves, and getBoolean: the values the
\* auto-help condition can read for the help entry.
parse(opts, values, lg, threshold, desc, ldcfg, autoh, files, av) ==
    parseChecked(opts, values, threshold, ldcfg, files, av,
                 checkFormat(opts, desc, threshold, lg))

(***************************************************************************)
(* The files of the environment, and what they hold.                       *)
(***************************************************************************)
path_a_csv == <<"a", ".", "c", "s", "v">>
path_b_csv == <<"b", ".", "c", "s", "v">>
path_c_json == <<"c", ".", "j", "s", "o", "n">>

\* count,7 / verbose,false / help,yes / config,x / extra,1
text_a_csv ==
    <<"c", "o", "u", "n", "t", ",", "7", "\n", "v", "e", "r", "b", "o", "s",
    "e", ",", "f", "a", "l", "s", "e", "\n", "h", "e", "l", "p", ",", "y",
    "e", "s", "\n", "c", "o", "n", "f", "i", "g", ",", "x", "\n", "e", "x",
    "t", "r", "a", ",", "1", "\n">>

\* count,abc : a value that is no integer
text_b_csv ==
    <<"c", "o", "u", "n", "t", ",", "a", "b", "c", "\n">>

\* {"count": 7.5, "extra": {"k": true}, "help": true, "verbose": "yes"}
doc_c_json ==
    JsonObject(<<Member(str_count, JsonNumber(75)),
                 Member(<<"e", "x", "t", "r", "a">>,
                        JsonObject(<<Member(<<"k">>, JsonBool(TRUE))>>)),
                 Member(str_help, JsonBool(TRUE)),
                 Member(str_verbose, JsonString(<<"y", "e", "s">>))>>)

InitialFiles ==
    [p \in {path_a_csv, path_b_csv, path_c_json} |->
        IF p = path_a_csv THEN TextFile(text_a_csv)
        ELSE IF p = path_b_csv THEN TextFile(text_b_csv)
        ELSE JsonFile(doc_c_json)]

(***************************************************************************)
(* The registry operations and the settings.                               *)
(***************************************************************************)
helpOption ==
    OptionHidden(OptionRequired(OptionDescription(OptionDefaultValue(
        OptionShortflag(NewOption(str_help), <<"h">>),
        BoolValue(FALSE)), "Display the help message"), FALSE), TRUE)

configOption ==
    OptionHidden(OptionRequired(OptionDescription(OptionDefaultValue(
        OptionShortflag(NewOption(str_config), str_cfg),
        StringValue(<<>>)), "Input configuration file (JSON/CSV)"), FALSE), TRUE)

\* Config::enableHelp, after _autoHelp = enabled: the schema it leaves.
enableHelp(opts, enabled) ==
    IF enabled /\ ~findOption(opts, str_help)
    THEN MapPut(opts, str_help, helpOption)
    ELSE IF findOption(opts, str_help) THEN MapErase(opts, str_help) ELSE opts

\* Config::enableConfig : the schema it leaves; the test reads _autoHelp.
enableConfig(opts, autoh, enabled) ==
    IF autoh /\ ~findOption(opts, str_config)
    THEN MapPut(opts, str_config, configOption)
    ELSE IF findOption(opts, str_config) THEN MapErase(opts, str_config) ELSE opts

\* Config::remove erasing nothing.
remove_keepsEntry(opts, flag) == opts

\* Config::remove : the schema it leaves.
remove(opts, flag) == IF findOption(opts, flag) THEN MapErase(opts, flag) ELSE opts

\* A declaration as client code writes it:
\* option(flag).shortflag(s).defaultValue(v).description(d).required(r).hidden(h).
Decl(flag, shortflag, defaultValue, text, required, hidden) ==
    [flag |-> flag, shortflag |-> shortflag, defaultValue |-> defaultValue,
     description |-> text, required |-> required, hidden |-> hidden]

declare(opts, d) ==
    LET with == option(opts, d.flag)
    IN  [with EXCEPT ![d.flag] =
            OptionHidden(OptionRequired(OptionDescription(OptionDefaultValue(
                OptionShortflag(with[d.flag], d.shortflag),
                d.defaultValue), d.description), d.required), d.hidden)]

(***************************************************************************)
(* The inputs the specifications draw from.                                *)
(***************************************************************************)
SeqsUpTo(S, n) == UNION {[1..k -> S] : k \in 0..n}

Declarations ==
    {Decl(str_count, str_c, IntValue(1), "count", FALSE, FALSE),
     Decl(str_count, str_c, Unknown, "count", FALSE, FALSE),
     Decl(str_count, str_c, IntValue(1), "count", FALSE, TRUE),
     Decl(str_name, <<>>, StringValue(<<>>), "", TRUE, FALSE),
     Decl(str_name, <<>>, Unknown, "name", TRUE, FALSE),
     Decl(str_verbose, str_v, BoolValue(FALSE), "verbose", FALSE, FALSE),
     Decl(str_verbose, str_c, BoolValue(TRUE), "verbose", FALSE, FALSE)}

Flags == {str_help, str_config, str_count, str_name, str_verbose}

Tokens ==
    {Long(str_count), Short(str_c), Long(str_verbose), Long(str_help),
     Long(str_config), Short(str_cfg), Long(<<"x">>), Short(<<"z">>),
     path_a_csv, path_b_csv, path_c_json, str_5, str_false, <<>>}

\* The schema and the tokens of the walk on longer argument lists.
WalkDeclarations ==
    {Decl(str_verbose, str_v, BoolValue(FALSE), "verbose", FALSE, FALSE),
     Decl(str_verbose, str_v, BoolValue(TRUE), "verbose", FALSE, FALSE),
     Decl(str_count, str_c, IntValue(1), "count", FALSE, FALSE)}

WalkTokens ==
    {Long(str_verbose), Short(str_v), str_false, <<>>, Long(str_config),
     path_a_csv, path_b_csv, Long(str_count), str_5}

\* The schema and the tokens of the specification's example.
ExampleDeclarations ==
    {Decl(str_count, str_c, IntValue(1), "count", FALSE, FALSE),
     Decl(str_name, <<"n">>, StringValue(<<>>), "name", TRUE, FALSE)}

ExampleTokens == {Long(str_name), str_alice, Long(str_count), str_5}

\* The schema and the characters of the token specification.
TokenDeclarations ==
    {Decl(str_count, str_c, IntValue(1), "count", FALSE, FALSE)}

TokenChars == {"-", "5", ".", "e", "x"}

\* Options named after those characters: x with the short alias e, e with
\* no short alias, and ex with the short alias e too.
FlagDeclarations ==
    {Decl(<<"x">>, <<"e">>, IntValue(1), "x", FALSE, FALSE),
     Decl(<<"e">>, <<>>, IntValue(1), "e", FALSE, FALSE),
     Decl(<<"e", "x">>, <<"e">>, BoolValue(FALSE), "ex", FALSE, FALSE)}

(***************************************************************************)
(* The state machine.                                                      *)
(***************************************************************************)
Init ==
    /\ options = enableConfig(enableHelp(EmptyMap, TRUE), TRUE, TRUE)
    /\ optionValues = EmptyMap
    /\ log = <<>>
    /\ logLevel = WARNING
    /\ description = ""
    /\ exeName = <<>>
    /\ autoHelp = TRUE
    /\ loadConfig = TRUE
    /\ fs = InitialFiles
    /\ argv = <<>>
    /\ ret = "none"
    /\ checkFormatResult = <<>>
    /\ validateResult = <<>>
    /\ helpShown = FALSE
    /\ badAccess = FALSE
    /\ calls = 0
    /\ parses = 0
    /\ tok = <<>>
    /\ tokType = "none"
    /\ resolved = <<>>
    /\ returned = <<>>
    /\ reloaded = <<>>
    /\ memory = NoValues

\* The record of a call: the operation, its argument, what it returned.
Returned(of, arg, value) == <<[of |-> of, arg |-> arg, value |-> value]>>

Parsed == parses > 0

parseVars == <<argv, ret, checkFormatResult, validateResult, helpShown, badAccess, parses>>
tokenVars == <<tok, tokType, resolved>>
callVars == <<returned, reloaded, memory>>

CanCall == calls < MaxCalls /\ parses = 0

\* option(flag) and the builder calls chained on it.
Register(D) ==
    /\ CanCall
    /\ \E d \in D : options' = declare(options, d)
    /\ calls' = calls + 1
    /\ UNCHANGED <<optionValues, log, logLevel, description, exeName, autoHelp,
                   loadConfig, fs, parseVars, tokenVars,
                   callVars>>

\* Config::option(flag) with no builder call on the reference it returns.
OptionCall ==
    /\ CanCall
    /\ \E flag \in Flags :
        /\ options' = option(options, flag)
        /\ returned' = Returned("option", flag, options'[flag])
    /\ calls' = calls + 1
    /\ UNCHANGED <<optionValues, log, logLevel, description, exeName, autoHelp,
                   loadConfig, fs, parseVars, tokenVars, reloaded, memory>>

\* Config::remove(flag): true is returned when findOption(flag) held.
Remove ==
    /\ CanCall
    /\ \E flag \in Flags :
        /\ options' = remove(options, flag)
        /\ returned' = Returned("remove", flag, findOption(options, flag))
    /\ calls' = calls + 1
    /\ UNCHANGED <<optionValues, log, logLevel, description, exeName, autoHelp,
                   loadConfig, fs, parseVars, tokenVars, reloaded, memory>>

EnableHelp ==
    /\ CanCall
    /\ \E enabled \in BOOLEAN :
        /\ autoHelp' = enabled
        /\ options' = enableHelp(options, enabled)
    /\ calls' = calls + 1
    /\ UNCHANGED <<optionValues, log, logLevel, description, exeName,
                   loadConfig, fs, parseVars, tokenVars,
                   callVars>>

EnableConfig ==
    /\ CanCall
    /\ \E enabled \in BOOLEAN :
        /\ loadConfig' = enabled
        /\ options' = enableConfig(options, autoHelp, enabled)
    /\ calls' = calls + 1
    /\ UNCHANGED <<optionValues, log, logLevel, description, exeName,
                   autoHelp, fs, parseVars, tokenVars,
                   callVars>>

\* Config::description(desc).
SetDescription ==
    /\ CanCall
    /\ \E desc \in {"", "a program"} : description' = desc
    /\ calls' = calls + 1
    /\ UNCHANGED <<options, optionValues, log, logLevel, exeName, autoHelp,
                   loadConfig, fs, parseVars, tokenVars,
                   callVars>>

\* Config::log(logType).
SetLogLevel ==
    /\ CanCall
    /\ \E logType \in LogLevels : logLevel' = logType
    /\ calls' = calls + 1
    /\ UNCHANGED <<options, optionValues, log, description, exeName, autoHelp,
                   loadConfig, fs, parseVars, tokenVars,
                   callVars>>

\* Config::config(configPath), called by the client.
LoadConfigFile ==
    /\ CanCall
    /\ \E configPath \in DOMAIN fs :
        LET r == config(options, [values |-> optionValues, log |-> log],
                        logLevel, fs, configPath)
        IN  /\ optionValues' = r.values
            /\ log' = r.log
    /\ calls' = calls + 1
    /\ UNCHANGED <<options, logLevel, description, exeName, autoHelp,
                   loadConfig, fs, parseVars, tokenVars,
                   callVars>>

\* Config::parse(argc, argv) with argv = prog and up to n tokens of Pool.
\* Config::parse(argc, argv) on the Config as it is, with an argument list
\* of at most n tokens of Pool after the program's name.
ParseCall(Pool, n) ==
    /\ \E args \in SeqsUpTo(Pool, n) :
        LET av == <<str_prog>> \o args
            r == parse(options, optionValues, log, logLevel, description,
                       loadConfig, autoHelp, fs, av)
        IN  /\ argv' = av
            /\ exeName' = BaseName(av[1])
            /\ optionValues' = r.values
            /\ log' = r.log
            /\ ret' = r.ret
            /\ checkFormatResult' = r.checkFormatResult
            /\ validateResult' = r.validateResult
            /\ badAccess' = r.badAccess
            /\ helpShown' \in {b /\ autoHelp : b \in r.getBoolean}
    /\ parses' = parses + 1
    /\ UNCHANGED <<options, logLevel, description, autoHelp, loadConfig, fs,
                   calls, tokenVars,
                   callVars>>

\* The first parse of a Config.
Parse(Pool, n) == parses < MaxParses /\ ParseCall(Pool, n)

\* A further parse on the same Config.
ParseAgain(Pool, n) ==
    Parsed /\ parses < MaxParses + MaxAgain /\ ParseCall(Pool, n)

\* Config::getTokenType on the token drawn at the start.
Classify ==
    /\ tokType = "none"
    /\ tokType' = getTokenType(tok)
    /\ UNCHANGED <<options, optionValues, log, logLevel, description, exeName,
                   autoHelp, loadConfig, fs, parseVars, calls, tok, resolved,
                   callVars>>

\* Config::getOption on the classified token, over the schema as it stands.
Resolve ==
    /\ tokType \in {"FLAG", "SHORTFLAG"}
    /\ resolved = <<>>
    /\ resolved' = <<getOption(options, tok, tokType)>>
    /\ UNCHANGED <<options, optionValues, log, logLevel, description, exeName,
                   autoHelp, loadConfig, fs, parseVars, calls, tok, tokType,
                   callVars>>

\* Config::serialize(serializeFilePath, format) on the store a parse left:
\* outStr is written to the file when the path is not empty, unless
\* get<object>() threw before.
Serialize(Paths, Formats) ==
    /\ Parsed
    /\ returned = <<>>
    /\ \E serializeFilePath \in Paths, format \in Formats :
        LET s == serialize(optionValues, serializeFilePath, format)
        IN  /\ returned' = Returned("serialize", serializeFilePath, s)
            /\ fs' = IF serializeFilePath = <<>>
                        \/ (s.format = "JSON" /\ s.out.k = "threw")
                     THEN fs
                     ELSE MapPut(fs, serializeFilePath,
                                 IF s.format = "JSON" THEN JsonFile(s.out)
                                 ELSE TextFile(s.out))
    /\ UNCHANGED <<options, optionValues, log, logLevel, description, exeName,
                   autoHelp, loadConfig, parseVars, calls, tokenVars, reloaded,
                   memory>>

\* A second Config with the same schema and settings parses
\* [prog, --config, path] with the path serialize wrote to.
Reload ==
    /\ returned # <<>>
    /\ returned[1].of = "serialize"
    /\ returned[1].arg \in DOMAIN fs
    /\ reloaded = <<>>
    /\ reloaded' = <<parse(options, EmptyMap, <<>>, logLevel, description,
                           loadConfig, autoHelp, fs,
                           <<str_prog, Long(str_config), returned[1].arg>>)>>
    /\ UNCHANGED <<options, optionValues, log, logLevel, description, exeName,
                   autoHelp, loadConfig, fs, parseVars, calls, tokenVars, returned,
                   memory>>

Next ==
    \/ Register(Declarations)
    \/ Remove
    \/ EnableHelp
    \/ EnableConfig
    \/ SetDescription
    \/ SetLogLevel
    \/ LoadConfigFile
    \/ Parse(Tokens, MaxArgs)

Spec == Init /\ [][Next]_vars

(***************************************************************************)
(* The walk on longer argument lists, over a schema of a Bool and an Int   *)
(* option.                                                                 *)
(***************************************************************************)
NextWalk ==
    \/ Register(WalkDeclarations)
    \/ SetLogLevel
    \/ Parse(WalkTokens, MaxWalkArgs)

SpecWalk == Init /\ [][NextWalk]_vars

(***************************************************************************)
(* The example of the specification: count and name.                       *)
(***************************************************************************)
NextExample ==
    \/ Register(ExampleDeclarations)
    \/ Parse(ExampleTokens, MaxExampleArgs)

SpecExample == Init /\ [][NextExample]_vars

(***************************************************************************)
(* Token classification: a token is drawn, classified, and handed to parse *)
(* after --count.                                                          *)
(***************************************************************************)
InitTokens ==
    /\ options = enableConfig(enableHelp(EmptyMap, TRUE), TRUE, TRUE)
    /\ optionValues = EmptyMap
    /\ log = <<>>
    /\ logLevel = WARNING
    /\ description = ""
    /\ exeName = <<>>
    /\ autoHelp = TRUE
    /\ loadConfig = TRUE
    /\ fs = InitialFiles
    /\ argv = <<>>
    /\ ret = "none"
    /\ checkFormatResult = <<>>
    /\ validateResult = <<>>
    /\ helpShown = FALSE
    /\ badAccess = FALSE
    /\ calls = 0
    /\ parses = 0
    /\ tok \in SeqsUpTo(TokenChars, MaxTokenLen)
    /\ tokType = "none"
    /\ resolved = <<>>
    /\ returned = <<>>
    /\ reloaded = <<>>
    /\ memory = NoValues

NextTokens ==
    \/ Classify
    \/ Register(TokenDeclarations)
    \/ Parse({Long(str_count), tok}, MaxTokenArgs)

SpecTokens == InitTokens /\ [][NextTokens]_vars

(***************************************************************************)
(* Flag resolution: the token drawn is classified and, when it is a flag,  *)
(* looked up in a schema of options named after its characters.            *)
(***************************************************************************)
NextFlags ==
    \/ Classify
    \/ Register(FlagDeclarations)
    \/ Resolve

SpecFlags == InitTokens /\ [][NextFlags]_vars

(***************************************************************************)
(* Value coercion: a token is drawn and handed to parseValue with each     *)
(* target type.                                                            *)
(***************************************************************************)
DataTypes == {"INT", "NUMBER", "BOOL", "STRING"}

ValueChars == {"1", "2", "a", "-", " "}

\* The spellings of s in every mix of lower and upper case.
Casings(s) ==
    {[i \in DOMAIN s |-> IF up[i] THEN Uppers[IndexOf(Lowers, s[i])] ELSE s[i]] :
        up \in [DOMAIN s -> BOOLEAN]}

ValueTokens ==
    SeqsUpTo(ValueChars, MaxValueLen) \cup Casings(str_false) \cup Casings(<<"f">>)
    \cup {<<"1", "2", "a", "b", "c">>, <<"a", "b", "c">>, <<"4", "2">>,
          <<"t", "r", "u", "e", "0">>, <<"t", "r", "u", "e">>}

InitValues ==
    /\ options = enableConfig(enableHelp(EmptyMap, TRUE), TRUE, TRUE)
    /\ optionValues = EmptyMap
    /\ log = <<>>
    /\ logLevel = WARNING
    /\ description = ""
    /\ exeName = <<>>
    /\ autoHelp = TRUE
    /\ loadConfig = TRUE
    /\ fs = InitialFiles
    /\ argv = <<>>
    /\ ret = "none"
    /\ checkFormatResult = <<>>
    /\ validateResult = <<>>
    /\ helpShown = FALSE
    /\ badAccess = FALSE
    /\ calls = 0
    /\ parses = 0
    /\ tok \in ValueTokens
    /\ tokType = "none"
    /\ resolved = <<>>
    /\ returned = <<>>
    /\ reloaded = <<>>
    /\ memory = NoValues

\* Config::parseValue(token, dataType) on the token drawn at the start.
Coerce ==
    /\ returned = <<>>
    /\ \E dataType \in DataTypes :
        returned' = Returned("parseValue", dataType, parseValue(tok, dataType))
    /\ UNCHANGED <<options, optionValues, log, logLevel, description, exeName,
                   autoHelp, loadConfig, fs, parseVars, calls, tokenVars,
                   reloaded, memory>>

NextValues ==
    \/ Coerce
    \/ Classify

SpecValues == InitValues /\ [][NextValues]_vars

(***************************************************************************)
(* The cursor of the walk: a Text option name, flags no option has, free   *)
(* values and the config files.                                            *)
(***************************************************************************)
CursorDeclarations ==
    {Decl(str_name, <<"n">>, StringValue(<<>>), "name", FALSE, FALSE)}

CursorTokens ==
    {Long(str_name), <<"a">>, <<"b">>, Short(<<"z">>), Long(<<"x">>), <<>>,
     Long(str_config), path_a_csv, path_c_json}

NextCursor ==
    \/ Register(CursorDeclarations)
    \/ Parse(CursorTokens, MaxCursorArgs)

SpecCursor == Init /\ [][NextCursor]_vars

(***************************************************************************)
(* The built-in options: enableHelp and enableConfig calls, among the      *)
(* declarations of other options and the setters, which leave the entries  *)
(* of help and config alone.                                               *)
(***************************************************************************)
NextEnable ==
    \/ EnableHelp
    \/ EnableConfig
    \/ Register(Declarations)
    \/ SetDescription
    \/ SetLogLevel

SpecEnable == Init /\ [][NextEnable]_vars

(***************************************************************************)
(* The registry: options declared, looked up and removed, over a store the *)
(* config files may have filled.                                           *)
(***************************************************************************)
NextRegistry ==
    \/ Register(Declarations)
    \/ OptionCall
    \/ Remove
    \/ LoadConfigFile

SpecRegistry == Init /\ [][NextRegistry]_vars

(***************************************************************************)
(* Round trips: the store a parse left is serialized to a file, and a      *)
(* second Config with the same schema loads that file.                     *)
(***************************************************************************)
path_out_csv == <<"o", "u", "t", ".", "c", "s", "v">>
path_out_json == <<"o", "u", "t", ".", "j", "s", "o", "n">>

CsvDeclarations ==
    {Decl(str_count, str_c, IntValue(1), "count", FALSE, FALSE),
     Decl(str_name, <<"n">>, StringValue(<<>>), "name", FALSE, FALSE),
     Decl(str_verbose, str_v, BoolValue(FALSE), "verbose", FALSE, FALSE)}

CsvTokens ==
    {Long(str_count), str_minus5, Long(str_name), <<"a", ",", "b">>, str_alice,
     Long(str_verbose), Long(<<"x">>)}

NextCsv ==
    \/ Register(CsvDeclarations)
    \/ Parse(CsvTokens, MaxCsvArgs)
    \/ Serialize({path_out_csv}, {DefaultFormat})
    \/ Reload

SpecCsv == Init /\ [][NextCsv]_vars

JsonDeclarations ==
    {Decl(str_count, str_c, IntValue(1), "count", FALSE, FALSE)}

JsonTokens ==
    {Long(<<"a">>), Long(<<"a", ".", "b">>), Long(<<"a", ".", "b", ".", "c">>),
     <<"x">>, Long(str_count), str_5}

NextJson ==
    \/ Register(JsonDeclarations)
    \/ Parse(JsonTokens, MaxJsonArgs)
    \/ Serialize({path_out_json}, {DefaultFormat})
    \/ Reload

SpecJson == Init /\ [][NextJson]_vars

(***************************************************************************)
(* Value objects of a caller: constructed, copied, moved, assigned,        *)
(* printed and destroyed.                                                  *)
(***************************************************************************)
MaxBuffers == 3
MaxTextLen == 2

CanAllocate == Len(memory.heap) < MaxBuffers /\ returned = <<>>
Alive(n) == memory.objects[n].alive

\* Value v;
Construct ==
    /\ returned = <<>>
    /\ \E n \in ValueNames :
        /\ ~Alive(n)
        /\ memory' = [memory EXCEPT !.objects[n] = NewValue]
    /\ UNCHANGED <<options, optionValues, log, logLevel, description, exeName,
                   autoHelp, loadConfig, fs, parseVars, calls, tokenVars,
                   returned, reloaded>>

\* Value v(primitive);  Value::Value(const int&) and the like: Value(), then
\* copyData of the primitive.
ConstructFrom(Primitives) ==
    /\ CanAllocate
    /\ \E n \in ValueNames, v \in Primitives :
        /\ ~Alive(n)
        /\ memory' = copyData([memory EXCEPT !.objects[n] = NewValue], n,
                               CallerPointer(v.val), sizeOf(v), v.type, 0)
    /\ UNCHANGED <<options, optionValues, log, logLevel, description, exeName,
                   autoHelp, loadConfig, fs, parseVars, calls, tokenVars,
                   returned, reloaded>>

\* Value v(other);  Value::Value(const Value& other): Value(), then copyData
\* of other's members.
CopyConstruct ==
    /\ CanAllocate
    /\ \E n \in ValueNames, other \in ValueNames :
        /\ ~Alive(n) /\ Alive(other)
        /\ \E garbage \in Garbage(memory.objects[other]._type) :
            memory' = copyData([memory EXCEPT !.objects[n] = NewValue], n,
                               HeapPointer(memory.objects[other]._data),
                               memory.objects[other]._size,
                               memory.objects[other]._type, garbage)
    /\ UNCHANGED <<options, optionValues, log, logLevel, description, exeName,
                   autoHelp, loadConfig, fs, parseVars, calls, tokenVars,
                   returned, reloaded>>

\* Value v(std::move(other));
MoveConstruct ==
    /\ returned = <<>>
    /\ \E n \in ValueNames, other \in ValueNames :
        /\ ~Alive(n) /\ Alive(other)
        /\ memory' = moveFrom([memory EXCEPT !.objects[n] = NewValue], n, other)
    /\ UNCHANGED <<options, optionValues, log, logLevel, description, exeName,
                   autoHelp, loadConfig, fs, parseVars, calls, tokenVars,
                   returned, reloaded>>

\* v = other;  other may be v itself.  Value::operator=(const Value& other):
\* clearData, then copyData of the members other has by then.
CopyAssign ==
    /\ CanAllocate
    /\ \E n \in ValueNames, other \in ValueNames :
        /\ Alive(n) /\ Alive(other)
        /\ \E garbage \in Garbage(memory.objects[other]._type) :
            memory' = copyData(clearData(memory, n), n,
                               HeapPointer(clearData(memory, n).objects[other]._data),
                               memory.objects[other]._size,
                               memory.objects[other]._type, garbage)
    /\ UNCHANGED <<options, optionValues, log, logLevel, description, exeName,
                   autoHelp, loadConfig, fs, parseVars, calls, tokenVars,
                   returned, reloaded>>

\* v = std::move(other);  other may be v itself.
MoveAssign ==
    /\ returned = <<>>
    /\ \E n \in ValueNames, other \in ValueNames :
        /\ Alive(n) /\ Alive(other)
        /\ memory' = moveFrom(memory, n, other)
    /\ UNCHANGED <<options, optionValues, log, logLevel, description, exeName,
                   autoHelp, loadConfig, fs, parseVars, calls, tokenVars,
                   returned, reloaded>>

\* v = primitive;  Value::operator=(const int&) and the like: clearData,
\* then copyData of the primitive.
Assign(Primitives) ==
    /\ CanAllocate
    /\ \E n \in ValueNames, v \in Primitives :
        /\ Alive(n)
        /\ memory' = copyData(clearData(memory, n), n, CallerPointer(v.val),
                               sizeOf(v), v.type, 0)
    /\ UNCHANGED <<options, optionValues, log, logLevel, description, exeName,
                   autoHelp, loadConfig, fs, parseVars, calls, tokenVars,
                   returned, reloaded>>

\* v goes out of scope.  Value::~Value: clearData, and the object is gone.
Destroy ==
    /\ returned = <<>>
    /\ \E n \in ValueNames :
        /\ Alive(n)
        /\ memory' = [clearData(memory, n) EXCEPT !.objects[n] = NoValue]
    /\ UNCHANGED <<options, optionValues, log, logLevel, description, exeName,
                   autoHelp, loadConfig, fs, parseVars, calls, tokenVars,
                   returned, reloaded>>

\* What the typed accessors read of an object: the tag and the payload
\* _data points at; garbage when no buffer backs the read.
Backed(M, n) ==
    M.objects[n]._data # 0 /\ M.heap[M.objects[n]._data].released = 0

held(M, n, garbage) ==
    [type |-> M.objects[n]._type,
     val |-> IF M.objects[n]._type = "UNKNOWN" THEN 0
             ELSE IF Backed(M, n) THEN M.heap[M.objects[n]._data].bytes
             ELSE garbage]

\* v.print();  UNKNOWN reads nothing; the other tags read through _data.
PrintCall ==
    /\ returned = <<>>
    /\ \E n \in ValueNames :
        /\ Alive(n)
        /\ \E garbage \in Garbage(memory.objects[n]._type) :
            returned' = Returned("print", held(memory, n, garbage),
                                 print(held(memory, n, garbage)))
        /\ memory' = [memory EXCEPT !.faults = @ \cup
                        IF memory.objects[n]._type = "UNKNOWN" \/ Backed(memory, n)
                        THEN {}
                        ELSE IF memory.objects[n]._data = 0
                        THEN {"read through nullptr"}
                        ELSE {"read after delete"}]
    /\ UNCHANGED <<options, optionValues, log, logLevel, description, exeName,
                   autoHelp, loadConfig, fs, parseVars, calls, tokenVars,
                   reloaded>>

\* v.printType();  only the tag is read.
PrintTypeCall ==
    /\ returned = <<>>
    /\ \E n \in ValueNames :
        /\ Alive(n)
        /\ returned' = Returned("printType", memory.objects[n]._type,
                                printType(held(memory, n, 0)))
    /\ UNCHANGED <<options, optionValues, log, logLevel, description, exeName,
                   autoHelp, loadConfig, fs, parseVars, calls, tokenVars,
                   reloaded, memory>>

TextChars == {"a", "\""}

PrintedPrimitives ==
    {IntValue(i) : i \in {0 - 12, 0, 7, 105}}
    \cup {NumberValue(t) : t \in {0 - 15, 25}}
    \cup {BoolValue(b) : b \in BOOLEAN}
    \cup {StringValue(s) : s \in SeqsUpTo(TextChars, MaxTextLen)}

NextPrinted ==
    \/ Construct
    \/ ConstructFrom(PrintedPrimitives)
    \/ PrintCall
    \/ PrintTypeCall

SpecPrinted == Init /\ [][NextPrinted]_vars

OwnedPrimitives == {IntValue(7), BoolValue(TRUE), StringValue(<<"a">>)}

NextOwned ==
    \/ Construct
    \/ ConstructFrom(OwnedPrimitives)
    \/ CopyConstruct
    \/ MoveConstruct
    \/ CopyAssign
    \/ MoveAssign
    \/ Assign(OwnedPrimitives)
    \/ Destroy

SpecOwned == Init /\ [][NextOwned]_vars

(***************************************************************************)
(* JSON documents merged by config(): arrays, nested objects, and leaves   *)
(* whose type the schema's option does not take.                           *)
(***************************************************************************)
path_d_json == <<"d", ".", "j", "s", "o", "n">>

str_b_k == <<"b", ".", "k">>

MergeDeclarations ==
    {Decl(str_count, str_c, IntValue(1), "count", FALSE, FALSE),
     Decl(str_b_k, <<>>, IntValue(0), "b.k", FALSE, FALSE),
     Decl(str_name, <<"n">>, StringValue(<<>>), "name", FALSE, FALSE)}

\* "a": [], "b": {"k": true, "m": "x"}, "count": "x", "name": "bob",
\* "z": {"k": 1.0}
MergeMember(key) ==
    IF key = <<"a">> THEN [k |-> "array"]
    ELSE IF key = <<"b">>
    THEN JsonObject(<<Member(<<"k">>, JsonBool(TRUE)),
                      Member(<<"m">>, JsonString(<<"x">>))>>)
    ELSE IF key = str_count THEN JsonString(<<"x">>)
    ELSE IF key = str_name THEN JsonString(<<"b", "o", "b">>)
    ELSE JsonObject(<<Member(<<"k">>, JsonNumber(10))>>)

\* The documents: an object with some of those members, in key order.
MergeDocs ==
    {JsonObject([i \in 1..Cardinality(S) |->
                    Member(SortedKeys(S)[i], MergeMember(SortedKeys(S)[i]))]) :
        S \in SUBSET {<<"a">>, <<"b">>, str_count, str_name, <<"z">>}}

\* The user writes a JSON document to d.json before the program reads it.
WriteConfigFile(Docs) ==
    /\ parses = 0
    /\ path_d_json \notin DOMAIN fs
    /\ \E doc \in Docs : fs' = MapPut(fs, path_d_json, JsonFile(doc))
    /\ UNCHANGED <<options, optionValues, log, logLevel, description, exeName,
                   autoHelp, loadConfig, parseVars, calls, tokenVars, callVars>>

NextMerge ==
    \/ Register(MergeDeclarations)
    \/ WriteConfigFile(MergeDocs)
    \/ LoadConfigFile

SpecMerge == Init /\ [][NextMerge]_vars

(***************************************************************************)
(* Required options registered without a default, given on the command     *)
(* line and in config files.                                               *)
(***************************************************************************)
MaxRequiredArgs == 2

RequiredDeclarations ==
    {Decl(str_name, <<"n">>, Unknown, "name", TRUE, FALSE),
     Decl(str_count, str_c, Unknown, "count", TRUE, FALSE)}

\* {"name": "bob"}
RequiredDocs == {JsonObject(<<Member(str_name, JsonString(<<"b", "o", "b">>))>>)}

RequiredTokens ==
    {Long(str_name), str_alice, Long(str_config), path_a_csv, path_d_json}

NextRequired ==
    \/ Register(RequiredDeclarations)
    \/ WriteConfigFile(RequiredDocs)
    \/ Parse(RequiredTokens, MaxRequiredArgs)

SpecRequired == Init /\ [][NextRequired]_vars

(***************************************************************************)
(* parse called again on the same Config.                                  *)
(***************************************************************************)
MaxAgainArgs == 2

AgainTokens == {Long(<<"x">>), <<"a">>, Long(str_count), str_5}

NextAgain ==
    \/ Register(ExampleDeclarations)
    \/ Parse(AgainTokens, MaxAgainArgs)
    \/ ParseAgain(AgainTokens, MaxAgainArgs)

SpecAgain == Init /\ [][NextAgain]_vars

(***************************************************************************)
(* The help entry read by parse: help disabled, removed, or declared again *)
(* with another default; --help with a text, and files that set help.      *)
(***************************************************************************)
MaxHelpArgs == 2

HelpDeclarations ==
    {Decl(str_help, <<"h">>, StringValue(<<"n", "o">>), "help", FALSE, FALSE),
     Decl(str_help, <<"h">>, Unknown, "help", TRUE, FALSE),
     Decl(str_count, str_c, IntValue(1), "count", FALSE, FALSE)}

HelpTokens ==
    {Long(str_help), <<"y", "e", "s">>, Long(str_config), path_a_csv, path_c_json}

NextHelp ==
    \/ Register(HelpDeclarations)
    \/ EnableHelp
    \/ Remove
    \/ Parse(HelpTokens, MaxHelpArgs)

SpecHelp == Init /\ [][NextHelp]_vars

(***************************************************************************)
(* serialize called with every pairing of a path and a format argument.    *)
(***************************************************************************)
MaxFormatArgs == 2

FormatPaths ==
    {<<>>, <<"o", "u", "t">>, <<"o", ".", "t", "x", "t">>, path_out_csv,
     path_out_json, <<"o", ".", "C", "S", "V">>, <<"o", ".", "J", "S", "O", "N">>}

FormatTokens == {Long(str_count), str_5, Long(<<"x">>)}

NextFormat ==
    \/ Parse(FormatTokens, MaxFormatArgs)
    \/ Serialize(FormatPaths, ExportFormats)

SpecFormat == Init /\ [][NextFormat]_vars

(***************************************************************************)
(* The last parse call, read off its argument vector: which token resolves *)
(* to which option, which option a Value token is given to, and what the   *)
(* files named on the command line hold for an option.                     *)
(***************************************************************************)
\* The walk ran: parse was not aborted by format validation.
Walked == Parsed /\ validateResult # <<>>

Args == IF argv = <<>> THEN <<>> ELSE Tail(argv)

TypeAt(i) == getTokenType(Args[i])

IsFlagAt(i) == TypeAt(i) \in {"FLAG", "SHORTFLAG"}

ResolvesTo(i, k) ==
    IsFlagAt(i) /\ getOption(options, Args[i], TypeAt(i)) = [found |-> TRUE, flag |-> k]

Max(S) == CHOOSE x \in S : \A y \in S : y <= x

\* The nearest token before position j that is not Unknown; 0 if none.
Prev(j) ==
    IF \E i \in 1..(j - 1) : TypeAt(i) # "UNKNOWN"
    THEN Max({i \in 1..(j - 1) : TypeAt(i) # "UNKNOWN"})
    ELSE 0

\* The Value token at j is read while option k holds the cursor.
GivenTo(j, k) == TypeAt(j) = "VALUE" /\ Prev(j) # 0 /\ ResolvesTo(Prev(j), k)

\* The token at j gives option k a value: a flag of a Bool option (true), or
\* a Value token given to k that coerces to k's type.
SetsAt(j, k) ==
    \/ ResolvesTo(j, k) /\ OptionType(options[k]) = "BOOL"
    \/ GivenTo(j, k) /\ ~isEmpty(parseValue(Args[j], OptionType(options[k])))

ValueAt(j, k) ==
    IF IsFlagAt(j) THEN BoolValue(TRUE)
    ELSE parseValue(Args[j], OptionType(options[k]))

CommandLineSets(k) == {j \in DOMAIN Args : SetsAt(j, k)}

\* The positions of the --config / -cfg pairs parse loads a file for.
ConfigPairs ==
    {i \in 1..(Len(Args) - 1) :
        /\ loadConfig
        /\ Args[i] \in {Long(str_config), Short(str_cfg)}
        /\ TypeAt(i + 1) = "VALUE"}

\* What the files of the environment hold for an option of a type, as a
\* value of that type: a.csv has count,7 and verbose,false; c.json has
\* "count": 7.5; b.csv has count,abc, which is no integer.
FileGives(path, k, type) ==
    IF path = path_a_csv /\ k = str_count /\ type = "INT" THEN <<IntValue(7)>>
    ELSE IF path = path_a_csv /\ k = str_verbose /\ type = "BOOL" THEN <<BoolValue(FALSE)>>
    ELSE IF path = path_c_json /\ k = str_count /\ type = "INT" THEN <<IntValue(7)>>
    ELSE <<>>

FileSets(k) ==
    {i \in ConfigPairs : FileGives(Args[i + 1], k, OptionType(options[k])) # <<>>}

\* The value precedence gives option k.
Expected(k) ==
    IF CommandLineSets(k) # {} THEN ValueAt(Max(CommandLineSets(k)), k)
    ELSE IF FileSets(k) # {}
         THEN FileGives(Args[Max(FileSets(k)) + 1], k, OptionType(options[k]))[1]
         ELSE options[k].defaultValue

Visible(k) == k \in DOMAIN options /\ ~options[k].hidden

\* C1: precedence default < config file < command line.  After a parse that
\* returned success, every non-hidden schema option with a non-Absent default
\* holds the last value the command line gave it, else the value of the last
\* config file loaded that has one for it, else its default.
C1_Precedence ==
    (Parsed /\ ret = "success") =>
        \A k \in DOMAIN options :
            (Visible(k) /\ ~isEmpty(options[k].defaultValue)) =>
                /\ contains(optionValues, k)
                /\ optionValues[k] = Expected(k)

\* C1 on the files whose every line coerces (b.csv is not loaded).
C1_PrecedenceCoercible ==
    (\A i \in ConfigPairs : Args[i + 1] # path_b_csv) => C1_Precedence

\* The keys the files of the environment set.
FileKeys(path) ==
    IF path = path_a_csv
    THEN {str_count, str_verbose, str_help, str_config, <<"e", "x", "t", "r", "a">>}
    ELSE IF path = path_b_csv THEN {str_count}
    ELSE IF path = path_c_json
    THEN {str_count, <<"e", "x", "t", "r", "a", ".", "k">>, str_help, str_verbose}
    ELSE {}

\* Neither the command line nor a loaded config file names option k.
Untouched(k) ==
    /\ \A j \in DOMAIN Args : ~ResolvesTo(j, k)
    /\ \A i \in ConfigPairs : k \notin FileKeys(Args[i + 1])

HasError(lg, k) ==
    \E n \in DOMAIN lg : lg[n].level = ERROR /\ lg[n].token = k

\* C2: a required option that never gets a value makes parse fail.  After a
\* parse that ran its walk under a threshold at or below ERROR, for every
\* required option neither the command line nor a config file names, parse
\* returned failure and the log holds an ERROR entry for the option's flag.
C2_RequiredMissingFails ==
    (Walked /\ logLevel <= ERROR) =>
        \A k \in DOMAIN options :
            (options[k].required /\ Untouched(k)) =>
                ret = "failure" /\ HasError(log, k)

\* The schema of the example: count, Int with default 1, and name, Text and
\* required, next to the built-in help and config.
ExampleSchema ==
    /\ DOMAIN options = {str_help, str_config, str_count, str_name}
    /\ options[str_count].defaultValue = IntValue(1)
    /\ OptionType(options[str_name]) = "STRING"
    /\ options[str_name].required

ExampleArgv == <<str_prog, Long(str_name), str_alice, Long(str_count), str_5>>

\* C3: with the schema {count: Int, default 1; name: Text, required} and the
\* arguments [prog, --name, alice, --count, 5], parse returns success and
\* the store holds name = "alice" (Text) and count = 5 (Int).
C3_Example ==
    (Parsed /\ ExampleSchema /\ argv = ExampleArgv) =>
        /\ ret = "success"
        /\ contains(optionValues, str_name)
        /\ optionValues[str_name] = StringValue(str_alice)
        /\ contains(optionValues, str_count)
        /\ optionValues[str_count] = IntValue(5)

C3_ExampleParsed ==
    Parsed /\ ExampleSchema /\ argv = ExampleArgv /\ ret = "success"

TokenProblem ==
    \E n \in DOMAIN log :
        log[n].msg \in {"unknown input", "unrecognized flag",
                        "unvalid value type is provided",
                        "unassociated argument is not stored"}

C5_NoHiddenInStore ==
    Walked =>
        \A k \in DOMAIN optionValues :
            ~(k \in DOMAIN options /\ options[k].hidden)

\* The config file a.csv, which sets help and config, was loaded through
\* --config while help and config are hidden options of the schema.
C5_HiddenWereSet ==
    /\ Walked
    /\ argv = <<str_prog, Long(str_config), path_a_csv>>
    /\ loadConfig
    /\ {str_help, str_config} \subseteq DOMAIN options
    /\ options[str_help].hidden /\ options[str_config].hidden
    /\ contains(optionValues, <<"e", "x", "t", "r", "a">>)

\* The level the schema calls for, read off the schema.
SchemaError(opts) ==
    \/ \E k \in DOMAIN opts : ~opts[k].required /\ isEmpty(opts[k].defaultValue)
    \/ \E k1, k2 \in DOMAIN opts :
          k1 # k2 /\ opts[k1].shortflag = opts[k2].shortflag /\ opts[k1].shortflag # <<>>

SchemaWarning(opts, desc) ==
    \/ \E k \in DOMAIN opts : opts[k].description = "" \/ opts[k].shortflag = <<>>
    \/ desc = ""

SchemaLevel(opts, desc) ==
    IF SchemaError(opts) THEN ERROR
    ELSE IF SchemaWarning(opts, desc) THEN WARNING
    ELSE INFO

\* C6: checkFormat returns ERROR iff some option is not required and has an
\* Absent default or two distinct options share a non-empty short flag,
\* otherwise WARNING iff some description or short flag or the program
\* description is empty, otherwise INFO; whatever the log threshold is.
C6_CheckFormatLevel ==
    Parsed => checkFormatResult = <<SchemaLevel(options, description)>>

\* checkFormat returned ERROR for two options sharing a short flag, under a
\* schema in which every optional option has a default.
C6_DuplicateShortflags ==
    /\ Parsed
    /\ checkFormatResult = <<ERROR>>
    /\ \A k \in DOMAIN options : options[k].required \/ ~isEmpty(options[k].defaultValue)

\* C7: when checkFormat returns ERROR under a threshold at or below ERROR,
\* the parse call returns failure and leaves the store as it was.
C7_FormatAbortKeepsStore ==
    [][(parses' = parses + 1 /\ checkFormatResult' = <<ERROR>> /\ logLevel <= ERROR)
       => (ret' = "failure" /\ optionValues' = optionValues)]_vars

\* A parse with arguments was aborted by format validation over a store
\* that held values.
C7_AbortedOverValues ==
    /\ Parsed
    /\ checkFormatResult = <<ERROR>> /\ logLevel <= ERROR
    /\ ret = "failure"
    /\ DOMAIN optionValues # {}
    /\ Len(argv) > 1

\* The positions of the flag tokens that resolve to option k.
FlagsOf(k) == {j \in DOMAIN Args : ResolvesTo(j, k)}

\* C8: a Bool-typed option whose flag, long or short, is on the command line
\* and is followed by no Value token read for it (after its last flag no
\* Value token comes before the next flag token) resolves to true, whatever
\* its default and whatever a config file set.
C8_BoolFlagTrue ==
    Walked =>
        \A k \in DOMAIN options :
            (/\ Visible(k)
             /\ OptionType(options[k]) = "BOOL"
             /\ FlagsOf(k) # {}
             /\ \A j \in DOMAIN Args : j > Max(FlagsOf(k)) => ~GivenTo(j, k))
            => (contains(optionValues, k) /\ optionValues[k] = BoolValue(TRUE))

\* The flag of a Bool option is the last argument, after a config file that
\* sets the option to false was loaded.
C8_FlagAfterFile ==
    /\ Walked
    /\ argv = <<str_prog, Long(str_config), path_a_csv, Short(str_v)>>
    /\ str_verbose \in DOMAIN options
    /\ options[str_verbose].defaultValue = BoolValue(FALSE)
    /\ optionValues[str_verbose] = BoolValue(TRUE)

AllDigits(s, from, n) == \A i \in from..(from + n - 1) : s[i] \in DigitSet

\* s is, as a whole, a decimal floating-point literal: an optional sign,
\* digits with an optional '.', at least one digit, and an optional
\* exponent of an 'e', an optional sign and at least one digit.
NumericLiteral(s) ==
    \E sgn \in 0..1, n1 \in 0..Len(s), dot \in 0..1, n2 \in 0..Len(s),
       ex \in 0..1, esgn \in 0..1, n3 \in 0..Len(s) :
        /\ sgn + n1 + dot + n2 + ex + esgn + n3 = Len(s)
        /\ sgn = 1 => s[1] \in {"+", "-"}
        /\ AllDigits(s, sgn + 1, n1)
        /\ dot = 1 => s[sgn + n1 + 1] = "."
        /\ dot = 0 => n2 = 0
        /\ AllDigits(s, sgn + n1 + dot + 1, n2)
        /\ n1 + n2 >= 1
        /\ ex = 1 => (s[sgn + n1 + dot + n2 + 1] \in {"e", "E"} /\ n3 >= 1)
        /\ ex = 0 => (esgn = 0 /\ n3 = 0)
        /\ esgn = 1 => s[sgn + n1 + dot + n2 + ex + 1] \in {"+", "-"}
        /\ AllDigits(s, sgn + n1 + dot + n2 + ex + esgn + 1, n3)

TokenClass(s) ==
    IF s = <<>> THEN "UNKNOWN"
    ELSE IF s[1] = "-" /\ NumericLiteral(s) THEN "VALUE"
    ELSE IF StartsWith(s, <<"-", "-">>) THEN "FLAG"
    ELSE IF s[1] = "-" THEN "SHORTFLAG"
    ELSE "VALUE"

\* C9: the empty token is Unknown; a token starting with '-' that is as a
\* whole a numeric literal is a Value; any other token starting with '--' is
\* a Flag, any other starting with '-' a SHORTFLAG; every other token is a
\* Value.  With count Int-typed, [prog, --count, -5] resolves count = -5.
C9_TokenClassification ==
    /\ tokType # "none" => tokType = TokenClass(tok)
    /\ (/\ Walked
        /\ argv = <<str_prog, Long(str_count), str_minus5>>
        /\ str_count \in DOMAIN options
        /\ OptionType(options[str_count]) = "INT")
       => (contains(optionValues, str_count) /\ optionValues[str_count] = IntValue(-5))

\* The token -5 was classified a Value and parsed after --count.
C9_NegativeNumber ==
    /\ tok = str_minus5
    /\ tokType = "VALUE"
    /\ Walked
    /\ argv = <<str_prog, Long(str_count), str_minus5>>
    /\ str_count \in DOMAIN options
    /\ optionValues[str_count] = IntValue(-5)

\* The options whose short alias is x.
WithAlias(opts, x) == {k \in DOMAIN opts : opts[k].shortflag = x}

\* getOption's answer for a flag token is the one the resolution rule gives.
Resolution(opts, token, type, r) ==
    IF type = "FLAG"
    THEN IF Drop(token, 2) \in DOMAIN opts
         THEN r = [found |-> TRUE, flag |-> Drop(token, 2)]
         ELSE ~r.found
    ELSE IF WithAlias(opts, Drop(token, 1)) # {}
         THEN r.found /\ r.flag \in WithAlias(opts, Drop(token, 1))
         ELSE IF Drop(token, 1) \in DOMAIN opts
              THEN r = [found |-> TRUE, flag |-> Drop(token, 1)]
              ELSE ~r.found

\* C10: a long flag --x resolves to the option with canonical flag x or to
\* none; a short flag -x, x possibly empty, resolves to an option whose
\* short alias is x, else to the option with canonical flag x, else to none.
C10_FlagResolution ==
    [][(resolved = <<>> /\ resolved' # <<>>)
       => Resolution(options, tok, tokType, resolved'[1])]_vars

\* A short flag with no alias of its text resolved to the option of that
\* canonical flag.
C10_FallbackToCanonical ==
    /\ resolved # <<>>
    /\ tokType = "SHORTFLAG"
    /\ WithAlias(options, Drop(tok, 1)) = {}
    /\ resolved[1] = [found |-> TRUE, flag |-> Drop(tok, 1)]

(***************************************************************************)
(* Claims about parseValue.                                                *)
(***************************************************************************)
\* parseValue was called with the target type t and returned v.
Coerced(t, v) ==
    returned # <<>> /\ returned[1].of = "parseValue"
    /\ returned[1].arg = t /\ returned[1].value = v

RECURSIVE Denotes(_, _)
\* The number the digits of s up to position n denote.
Denotes(s, n) ==
    IF n = 0 THEN 0 ELSE Denotes(s, n - 1) * 10 + DigitVal(s[n])

\* s is, as a whole, a decimal integer literal: an optional sign and at
\* least one digit, nothing else.
IntegerLiteral(s) ==
    \E sgn \in 0..1 :
        /\ Len(s) > sgn
        /\ sgn = 1 => s[1] \in {"+", "-"}
        /\ AllDigits(s, sgn + 1, Len(s) - sgn)

LiteralValue(s) ==
    IF s[1] = "-" THEN 0 - Denotes(Tail(s), Len(s) - 1)
    ELSE IF s[1] = "+" THEN Denotes(Tail(s), Len(s) - 1)
    ELSE Denotes(s, Len(s))

\* C11: parseValue with the target type Int returns Int n exactly when the
\* whole token is a decimal integer literal denoting n, and Absent for every
\* other token, such as "abc" and "12abc".
C11_IntWholeToken ==
    \A v \in {returned[i].value : i \in DOMAIN returned} :
        Coerced("INT", v) =>
            v = (IF IntegerLiteral(tok) THEN IntValue(LiteralValue(tok)) ELSE Unknown)

\* C12: parseValue with the target type Bool never returns Absent: it
\* returns false when the token is "false" or "f" in any casing, and true
\* for every other token, "true0" included.
C12_BoolCaseInsensitive ==
    \A v \in {returned[i].value : i \in DOMAIN returned} :
        Coerced("BOOL", v) =>
            v = BoolValue(LowerCase(tok) \notin {str_false, <<"f">>})

(***************************************************************************)
(* Claims about malformed input and the walk's cursor.                     *)
(***************************************************************************)
\* An input of the last parse for option k fails coercion to k's type: a
\* Value token given to k on the command line, or the line count,abc of
\* b.csv when count is no Text option.
FailsCoercion(k) ==
    \/ \E j \in DOMAIN Args :
        GivenTo(j, k) /\ isEmpty(parseValue(Args[j], OptionType(options[k])))
    \/ \E i \in ConfigPairs :
        /\ Args[i + 1] = path_b_csv /\ k = str_count
        /\ isEmpty(parseValue(<<"a", "b", "c">>, OptionType(options[k])))

\* C13: malformed input is a best-effort skip.  After a parse that ran its
\* walk, a non-hidden option for which an input failed coercion holds what the
\* other inputs and its default give it, and when no default of the schema
\* is Absent the parse returned success.
C13_FailedCoercionSkipped ==
    Walked =>
        \A k \in DOMAIN options :
            (Visible(k) /\ FailsCoercion(k)) =>
                /\ contains(optionValues, k)
                /\ optionValues[k] = Expected(k)
                /\ (\A o \in DOMAIN options : ~isEmpty(options[o].defaultValue))
                        => ret = "success"

\* The cursor the flag token at i sets, as <<key, type>>: the option it
\* resolves to, else the wildcard named after a long flag, else none (<<>>).
FlagCursor(i) ==
    LET r == getOption(options, Args[i], TypeAt(i))
    IN  IF r.found THEN <<r.flag, OptionType(options[r.flag])>>
        ELSE IF TypeAt(i) = "FLAG" THEN <<Drop(Args[i], 2), "STRING">>
        ELSE <<>>

\* The cursor when the token at j is read: set by the token before it when
\* that is a flag, unset at the start and after a Value token.
CursorBefore(j) ==
    IF Prev(j) # 0 /\ IsFlagAt(Prev(j)) THEN FlagCursor(Prev(j)) ELSE <<>>

\* The token at j writes the store's entry of key: the flag of a Bool option,
\* or a Value token read under a cursor on key that coerces to its type.
Writes(j, key) ==
    \/ /\ IsFlagAt(j)
       /\ FlagCursor(j) = <<key, "BOOL">>
    \/ /\ TypeAt(j) = "VALUE"
       /\ CursorBefore(j) # <<>>
       /\ CursorBefore(j)[1] = key
       /\ ~isEmpty(parseValue(Args[j], CursorBefore(j)[2]))

Written(j) ==
    IF IsFlagAt(j) THEN BoolValue(TRUE) ELSE parseValue(Args[j], CursorBefore(j)[2])

\* The keys the last parse could have written from the command line.
CommandLineKeys ==
    DOMAIN optionValues \cup DOMAIN options
    \cup {Drop(Args[i], 2) : i \in {j \in DOMAIN Args : TypeAt(j) = "FLAG"}}

Unrecognized(i) ==
    IsFlagAt(i) /\ ~getOption(options, Args[i], TypeAt(i)).found

\* The keys the command line gives a value through an unrecognized long flag.
WildcardKeys ==
    {Drop(Args[Prev(j)], 2) :
        j \in {i \in DOMAIN Args : /\ TypeAt(i) = "VALUE"
                                   /\ Prev(i) # 0
                                   /\ TypeAt(Prev(i)) = "FLAG"
                                   /\ Unrecognized(Prev(i))}}

\* The keys of the loaded files.
LoadedKeys == UNION {FileKeys(Args[i + 1]) : i \in ConfigPairs}

\* What the store holds after the last parse agrees with the rule for
\* unrecognized keys.
StrayKeysStored ==
    /\ \A j \in DOMAIN Args :
        (/\ TypeAt(j) = "VALUE" /\ Prev(j) # 0 /\ TypeAt(Prev(j)) = "FLAG"
         /\ Unrecognized(Prev(j))
         /\ \A n \in (j + 1)..Len(Args) : ~Writes(n, Drop(Args[Prev(j)], 2)))
            => /\ contains(optionValues, Drop(Args[Prev(j)], 2))
               /\ optionValues[Drop(Args[Prev(j)], 2)] = StringValue(Args[j])
    /\ DOMAIN optionValues =
            {k \in DOMAIN options \cup LoadedKeys \cup WildcardKeys : 
                k \in DOMAIN options => ~options[k].hidden}
    /\ \A i \in ConfigPairs :
        /\ (Args[i + 1] = path_a_csv
            /\ <<"e", "x", "t", "r", "a">> \notin DOMAIN options \cup WildcardKeys)
                => optionValues[<<"e", "x", "t", "r", "a">>] = StringValue(<<"1">>)
        /\ (Args[i + 1] = path_c_json
            /\ <<"e", "x", "t", "r", "a", ".", "k">> \notin DOMAIN options \cup WildcardKeys)
                => optionValues[<<"e", "x", "t", "r", "a", ".", "k">>] = BoolValue(TRUE)

\* C15: unrecognized keys go to the store only, never the schema.  A parse
\* leaves the schema as it was; when it ran its walk (over the empty store of
\* a Config that loaded nothing before), an unrecognized --x followed by a
\* Value v left Text v under x, the Value after an unrecognized short flag
\* left nothing (the store's keys are the non-hidden options, the keys of the
\* loaded files and the keys of such long flags), and a loaded file's key no
\* option has is stored under that literal key.
C15_StrayKeysStoreOnly ==
    /\ [](Walked => StrayKeysStored)
    /\ [][parses' > parses => options' = options]_vars

\* An unrecognized long flag stored its value and the value after an
\* unrecognized short flag was dropped, the schema holding what it held.
C15_StrayStoredShortDropped ==
    /\ Walked
    /\ argv = <<str_prog, Long(<<"x">>), <<"a">>, Short(<<"z">>), <<"b">>>>
    /\ DOMAIN options = {str_help, str_config, str_name}
    /\ optionValues = (str_name :> StringValue(<<>>)) @@ (<<"x">> :> StringValue(<<"a">>))

(***************************************************************************)
(* Claims about the registry.                                              *)
(***************************************************************************)
\* C16: after any sequence of enableHelp(b) and enableConfig(b) calls that
\* follows construction, the schema holds the option help exactly when the
\* most recent enableHelp argument was true (true at construction) and the
\* option config exactly when the most recent enableConfig argument was
\* true; _autoHelp and _loadConfig hold those arguments.
C16_BuiltinsFollowLastCall ==
    /\ findOption(options, str_help) <=> autoHelp
    /\ findOption(options, str_config) <=> loadConfig

\* The last step was the call of with its argument flag.
Called(with, flag) ==
    /\ calls' = calls + 1
    /\ returned' # <<>>
    /\ returned'[1].of = with
    /\ returned'[1].arg = flag

\* C17: option(flag) is an idempotent insert.  When the schema has no option
\* under flag the call adds one with that flag, no short flag, no
\* description, an Absent default, not required and not hidden; when it has
\* one the call returns that entry with its fields as they were.  No other
\* entry of the schema changes either way.
C17_OptionIdempotent ==
    [][\A flag \in Flags :
        (Called("option", flag) /\ OptionCall) =>
            /\ DOMAIN options' = DOMAIN options \cup {flag}
            /\ \A k \in DOMAIN options : options'[k] = options[k]
            /\ flag \notin DOMAIN options =>
                    options'[flag] = [flag |-> flag, shortflag |-> <<>>,
                                      description |-> "", defaultValue |-> Unknown,
                                      required |-> FALSE, hidden |-> FALSE]
            /\ returned'[1].value = options'[flag]]_vars

\* option("count") was called on a schema that held count with a default.
C17_ExistingReturned ==
    /\ returned # <<>>
    /\ returned[1].of = "option"
    /\ returned[1].arg = str_count
    /\ returned[1].value.defaultValue = IntValue(1)
    /\ options[str_count] = returned[1].value

RoundTrip(path) ==
    /\ returned # <<>>
    /\ returned[1].of = "serialize"
    /\ returned[1].arg = path
    /\ reloaded # <<>>

\* C19: CSV round trip.  When the store a successful parse left (Int, Bool
\* and Text values, Text with a comma and the empty Text among them) is
\* serialized to CSV and a Config with the same schema parses
\* [prog, --config, that file], its store holds the same keys with the same
\* tags and values.
C19_CsvRoundTrip ==
    (ret = "success" /\ RoundTrip(path_out_csv)) =>
        reloaded[1].values = optionValues

\* serialize was called with a path of extension json on the store of a
\* successful parse.
SerializedToJson ==
    /\ ret = "success"
    /\ returned # <<>>
    /\ returned[1].of = "serialize"
    /\ returned[1].arg = path_out_json

\* C20: JSON nested round trip.  The store of a successful parse, whatever
\* its keys (a key may be a dotted prefix of another, as a and a.b), is
\* serialized with the value of a dotted key a.b.c at {a: {b: {c: value}}},
\* and a Config with the same schema that loads the file holds every key
\* with the same value.
C20_JsonRoundTrip ==
    SerializedToJson =>
        /\ returned[1].value.out.k = "object"
        /\ reloaded # <<>> => reloaded[1].values = optionValues

\* C21: serialize takes its output format from the path's extension when the
\* path has a json or csv extension, and otherwise, for the empty path or a
\* path with no recognized extension, from the format argument: serialize()
\* with the default arguments produces JSON and serialize("", CSV) produces
\* CSV.
C21_FormatFromExtensionElseArgument ==
    (returned # <<>> /\ returned[1].of = "serialize") =>
        LET extension == Extension(returned[1].arg)
            s == returned[1].value
        IN  /\ extension \in {<<"j", "s", "o", "n">>, <<"J", "S", "O", "N">>}
                => s.format = "JSON"
            /\ extension \in {<<"c", "s", "v">>, <<"C", "S", "V">>}
                => s.format = "CSV"
            /\ extension \notin {<<"j", "s", "o", "n">>, <<"J", "S", "O", "N">>,
                                 <<"c", "s", "v">>, <<"C", "S", "V">>}
                => s.format = s.asked
            /\ (returned[1].arg = <<>> /\ s.asked = DefaultFormat)
                => s.format = "JSON"
(***************************************************************************)
(* Claims about Value.                                                     *)
(***************************************************************************)
RECURSIVE Escaped(_)
\* s with a backslash put before every double quote.
Escaped(s) ==
    IF s = <<>> THEN <<>>
    ELSE (IF Head(s) = "\"" THEN <<"\\", "\"">> ELSE <<Head(s)>>) \o Escaped(Tail(s))

\* The text print() is said to return for a Value of each tag but NUMBER.
PrintedAs(v, text) ==
    /\ v.type = "UNKNOWN" => text = <<"n", "u", "l", "l">>
    /\ v.type = "INT" => IntegerLiteral(text) /\ LiteralValue(text) = v.val
    /\ v.type = "BOOL" => text = (IF v.val THEN <<"t", "r", "u", "e">> ELSE str_false)
    /\ v.type = "STRING" => text = <<"\"">> \o Escaped(v.val) \o <<"\"">>

TypePrintedAs(tag, text) ==
    /\ tag = "UNKNOWN" => text = <<"U", "N", "K", "N", "O", "W", "N">>
    /\ tag = "INT" => text = <<"I", "N", "T">>
    /\ tag = "NUMBER" => text = <<"N", "U", "M", "B", "E", "R">>
    /\ tag = "BOOL" => text = <<"B", "O", "O", "L", "E", "A", "N">>
    /\ tag = "STRING" => text = <<"S", "T", "R", "I", "N", "G">>

\* C22: print() returns the text null for an Absent Value, the decimal
\* integer for Int, true or false for Bool, and for Text the text in double
\* quotes with the quotes inside it escaped; printType() returns UNKNOWN,
\* INT, NUMBER, BOOLEAN or STRING for the respective tag.
C22_PrintByTag ==
    /\ (returned # <<>> /\ returned[1].of = "print")
        => PrintedAs(returned[1].arg, returned[1].value)
    /\ (returned # <<>> /\ returned[1].of = "printType")
        => TypePrintedAs(returned[1].arg, returned[1].value)
\* This step moved the Value other into the Value n, by construction when n
\* was not alive and by assignment when it was.
Moved(n, other) ==
    /\ n # other
    /\ Alive(other)
    /\ memory'.heap = memory.heap
    /\ memory' # memory
    /\ memory' = moveFrom(IF Alive(n) THEN memory
                          ELSE [memory EXCEPT !.objects[n] = NewValue], n, other)

\* C23: a move, by construction or by assignment, gives the destination the
\* tag and the payload the source had and leaves the source Absent: the
\* source's type() is then UNKNOWN and its isEmpty() true; so for every Value
\* in every reachable state isEmpty() holds exactly when the tag is UNKNOWN.
C23_MovedFromIsAbsent ==
    /\ [](\A n \in ValueNames :
            Alive(n) => (objectIsEmpty(memory.objects[n])
                         <=> memory.objects[n]._type = "UNKNOWN"))
    /\ [][\A n \in ValueNames, other \in ValueNames :
            Moved(n, other) =>
                /\ memory'.objects[n]._type = memory.objects[other]._type
                /\ memory'.objects[n]._data = memory.objects[other]._data
                /\ memory'.objects[other]._type = "UNKNOWN"
                /\ objectIsEmpty(memory'.objects[other])]_vars
\* The live Values whose _data points at the buffer.
Owners(data) == {n \in ValueNames : Alive(n) /\ memory.objects[n]._data = data}

\* C26: a Value exclusively owns its payload across every sequence of
\* construction, copy-assignment (self-assignment included), move-assignment
\* onto a Value that holds a payload, assignment from a primitive, and
\* destruction: every buffer allocated is either owned by exactly one live
\* Value or was released exactly once; none is shared by two Values,
\* released twice, read after its release, or left unreleased with no owner.
C26_ExclusiveOwnership ==
    /\ \A data \in DOMAIN memory.heap :
        \/ memory.heap[data].released = 0 /\ Cardinality(Owners(data)) = 1
        \/ memory.heap[data].released = 1 /\ Owners(data) = {}
    /\ "read after delete" \notin memory.faults
(***************************************************************************)
(* Claims about config files.                                              *)
(***************************************************************************)
RECURSIVE Leaves(_, _)
\* The members of a JSON document that are no objects, at every depth, each
\* with the dotted key it is addressed by.
Leaves(v, flag) ==
    IF v.k = "object"
    THEN UNION {Leaves(v.members[i].value, memberFlag(flag, v.members[i].key)) :
                    i \in DOMAIN v.members}
    ELSE {[flag |-> flag, value |-> v]}

\* The leaf is a scalar the schema takes: its key has no option, or an
\* option whose type is the leaf's JSON type.
Takes(opts, leaf) ==
    /\ leaf.value.k \in {"number", "boolean", "string"}
    /\ leaf.flag \in DOMAIN opts =>
        \/ OptionType(opts[leaf.flag]) \in {"INT", "NUMBER"} /\ leaf.value.k = "number"
        \/ OptionType(opts[leaf.flag]) = "BOOL" /\ leaf.value.k = "boolean"
        \/ OptionType(opts[leaf.flag]) = "STRING" /\ leaf.value.k = "string"

\* This step is config(path) of a JSON file.
MergedJson(path) ==
    /\ Extension(path) = <<"j", "s", "o", "n">>
    /\ fs[path].kind = "json"
    /\ calls' = calls + 1
    /\ options' = options
    /\ optionValues' = config(options, [values |-> optionValues, log |-> log],
                              logLevel, fs, path).values

\* C24: when a JSON config is merged, a leaf whose JSON type its option does
\* not take, and likewise an array, affects only its own key, which keeps
\* what it had before; every other scalar leaf of the document, before or
\* after it and at any depth, is merged.
C24_MismatchAffectsOwnKeyOnly ==
    [][\A path \in DOMAIN fs :
        MergedJson(path) =>
            \A leaf \in Leaves(fs[path].doc, <<>>) :
                IF Takes(options, leaf)
                THEN /\ leaf.flag \in DOMAIN optionValues'
                     /\ optionValues'[leaf.flag].type # "UNKNOWN"
                     /\ leaf.flag \notin DOMAIN options
                            => optionValues'[leaf.flag] = jsonNative(leaf.value)
                ELSE /\ leaf.flag \in DOMAIN optionValues' <=> leaf.flag \in DOMAIN optionValues
                     /\ leaf.flag \in DOMAIN optionValues
                            => optionValues'[leaf.flag] = optionValues[leaf.flag]]_vars
\* A config file the last parse loaded sets the key k.
SetInFile(k) ==
    \E i \in ConfigPairs :
        \/ k \in FileKeys(Args[i + 1])
        \/ /\ Args[i + 1] = path_d_json
           /\ path_d_json \in DOMAIN fs
           /\ \E leaf \in Leaves(fs[path_d_json].doc, <<>>) : leaf.flag = k

\* C25: a required option registered without a default can be satisfied by
\* input: when its flag is followed by a Value token on the command line, or
\* a config file sets its key, the value is stored under its canonical flag
\* as a Value that is not Absent, and parse does not fail on that option.
C25_RequiredWithoutDefaultTakesInput ==
    Walked =>
        \A k \in DOMAIN options :
            (/\ options[k].required
             /\ isEmpty(options[k].defaultValue)
             /\ (\E j \in DOMAIN Args : GivenTo(j, k)) \/ SetInFile(k))
            => /\ contains(optionValues, k)
               /\ ~isEmpty(optionValues[k])
               /\ ~HasError(log, k)
\* C27: parse starts from a clean slate: when parse is called twice on the
\* same Config, the store after the second call is the store a Config with
\* the same schema holds after parsing the second argument list alone; no
\* value of the first call survives, stray keys included.
C27_SecondParseFromCleanSlate ==
    parses > 1 =>
        optionValues = parse(options, EmptyMap, <<>>, logLevel, description,
                             loadConfig, autoHelp, fs, argv).values
\* C28: parse never calls a typed accessor on a Value of another tag: in the
\* auto-help step the help entry is read with getBoolean only when its tag
\* is Bool, for every schema (help disabled, removed, or declared again with
\* a default that is no Bool) and every input (an unrecognized --help with a
\* text, a config file that sets help to a string).
C28_HelpReadOnlyWhenBool == Walked => ~badAccess
====
